---------------------------- MODULE Spec2Model ----------------------------
(***************************************************************************)
(* A model of the GenomicData conversion engine of fairscape_release       *)
(* (src/ROCrateCreation/GenomicDataModel/GenomicData.py): the ingest       *)
(* adapter from_json, the PEP export/ingest pair to_pep / from_pep and the *)
(* RO-Crate export to_rocrate.                                             *)
(*                                                                         *)
(* Conventions.  A Python str VALUE is a tuple of one-character strings    *)
(* (so that lower(), replace() and split() are computed character by       *)
(* character); a dict KEY, a CSV column name or a field name is a TLA+     *)
(* string.  A Python dict is a function whose domain is its key set.       *)
(* Python's None is the value None below.  Dict iteration order and the    *)
(* column order of a CSV header are not modelled: a header is the set of   *)
(* its column names, as csv.DictReader only ever looks a column up by      *)
(* name.                                                                   *)
(***************************************************************************)
EXTENDS Integers, Sequences, FiniteSets, Bags, TLC

VARIABLES
    pc,          \* position of the driver: which adapter runs next
    data,        \* the raw input dictionary handed to from_json
    model,       \* the GenomicData built by from_json (None before)
    pep_dir,     \* the PEP output directory: file name -> content
    reloaded,    \* the GenomicData re-ingested by from_pep (None before)
    pep_rows,    \* the subsamples_data row dicts to_pep built, before csv
    crate,       \* the @graph of ro-crate-metadata.json, a sequence of nodes
    rc,          \* the locals of to_rocrate while it runs; rc.lookups is a
                 \* history of what the cell-line lookup answered per sample
    call         \* one remote API call: the function called, the response
                 \* the server gives, and how the call ended

vars == <<pc, data, model, pep_dir, reloaded, pep_rows, crate, rc, call>>

(***************************************************************************)
(* Bounds of the model.                                                    *)
(***************************************************************************)
\* biosamples + experiments + runs of one raw input
MaxEntities == 4
\* files of one run
MaxFiles == 2

(***************************************************************************)
(* Strings and dicts.                                                      *)
(***************************************************************************)
None == <<"<None>">>

EmptyStr == <<>>

EmptyDict == [k \in {} |-> EmptyStr]

\* Python truthiness of None / str
Truthy(v) == v # None /\ v # EmptyStr

\* a or b
Or(a, b) == IF Truthy(a) THEN a ELSE b

\* d.get(k, default)
Get(d, k, default) == IF k \in DOMAIN d THEN d[k] ELSE default

\* d[k] = v
Put(d, k, v) == [x \in (DOMAIN d) \cup {k} |-> IF x = k THEN v ELSE d[x]]

\* {**d, **e}: the entries of e override those of d
Merge(d, e) ==
    [x \in (DOMAIN d) \cup (DOMAIN e) |-> IF x \in DOMAIN e THEN e[x] ELSE d[x]]

LowerChar(c) ==
    CASE c = "A" -> "a" [] c = "B" -> "b" [] c = "C" -> "c" [] c = "D" -> "d"
      [] c = "E" -> "e" [] c = "F" -> "f" [] c = "G" -> "g" [] c = "H" -> "h"
      [] c = "I" -> "i" [] c = "J" -> "j" [] c = "K" -> "k" [] c = "L" -> "l"
      [] c = "M" -> "m" [] c = "N" -> "n" [] c = "O" -> "o" [] c = "P" -> "p"
      [] c = "Q" -> "q" [] c = "R" -> "r" [] c = "S" -> "s" [] c = "T" -> "t"
      [] c = "U" -> "u" [] c = "V" -> "v" [] c = "W" -> "w" [] c = "X" -> "x"
      [] c = "Y" -> "y" [] c = "Z" -> "z" [] OTHER -> c

\* s.lower()
Lower(s) == [i \in 1..Len(s) |-> LowerChar(s[i])]

\* s.replace(a, b) for single characters a, b
Replace(s, a, b) == [i \in 1..Len(s) |-> IF s[i] = a THEN b ELSE s[i]]

\* s.split(c)[0]: the part of s before the first c
RECURSIVE SplitFirst(_, _)
SplitFirst(s, c) ==
    IF s = <<>> \/ Head(s) = c THEN <<>>
    ELSE <<Head(s)>> \o SplitFirst(Tail(s), c)

\* c in s
Contains(s, c) == \E i \in 1..Len(s) : s[i] = c

\* " + ".join(parts)
RECURSIVE Join(_, _)
Join(parts, sep) ==
    IF parts = <<>> THEN <<>>
    ELSE IF Len(parts) = 1 THEN parts[1]
    ELSE parts[1] \o sep \o Join(Tail(parts), sep)

(***************************************************************************)
(* String constants of the source.                                         *)
(***************************************************************************)
SamplesSuffix ==
    <<"_", "s", "a", "m", "p", "l", "e", "s", ".", "c", "s", "v">>

SubsamplesSuffix ==
    <<"_", "s", "u", "b", "s", "a", "m", "p", "l", "e", "s", ".", "c", "s",
      "v">>

ConfigName ==
    <<"p", "r", "o", "j", "e", "c", "t", "_", "c", "o", "n", "f", "i", "g",
      ".", "y", "a", "m", "l">>

PublicOn ==
    <<"P", "u", "b", "l", "i", "c", " ", "o", "n", " ">>

SRA ==
    <<"S", "R", "A">>

One ==
    <<"1">>

Zero ==
    <<"0">>

BiosampleUrl ==
    <<"h", "t", "t", "p", "s", ":", "/", "/", "w", "w", "w", ".", "n", "c",
      "b", "i", ".", "n", "l", "m", ".", "n", "i", "h", ".", "g", "o", "v",
      "/", "b", "i", "o", "s", "a", "m", "p", "l", "e", "/">>

BioprojectRel ==
    <<"B", "i", "o", "P", "r", "o", "j", "e", "c", "t", ":", " ", "h", "t",
      "t", "p", "s", ":", "/", "/", "w", "w", "w", ".", "n", "c", "b", "i",
      ".", "n", "l", "m", ".", "n", "i", "h", ".", "g", "o", "v", "/", "b",
      "i", "o", "p", "r", "o", "j", "e", "c", "t", "/">>

ProfilingBy ==
    <<"E", "x", "p", "r", "e", "s", "s", "i", "o", "n", " ", "p", "r", "o",
      "f", "i", "l", "i", "n", "g", " ", "b", "y", " ">>

DataFrom ==
    <<"D", "a", "t", "a", " ", "f", "r", "o", "m", " ">>

PepVersion ==
    <<"2", ".", "1", ".", "0">>

Underscore ==
    <<"_">>

Space ==
    <<" ">>

PlusSep ==
    <<" ", "+", " ">>

Owner ==
    <<"o", "w", "n", "e", "r">>

Center ==
    <<"c", "e", "n", "t", "e", "r">>

Public ==
    <<"p", "u", "b", "l", "i", "c">>

Unknown ==
    <<"U", "n", "k", "n", "o", "w", "n">>

(***************************************************************************)
(* from_json: raw API dictionary -> GenomicData.                           *)
(***************************************************************************)
\* sample_to_study_map keeping the first entry made for a sample
RECURSIVE SampleToFirstStudyMap(_)
SampleToFirstStudyMap(experiments) ==
    IF experiments = <<>> THEN EmptyDict
    ELSE LET experiment == Head(experiments)
             sample_ref == Or(Get(experiment, "sample_ref", None),
                              Get(experiment, "title", EmptyStr))
             study_ref == Or(Get(experiment, "study_ref", None),
                             Get(experiment, "title", EmptyStr))
         IN  Put(SampleToFirstStudyMap(Tail(experiments)), sample_ref, study_ref)

\* sample_to_study_map: one pass over the experiments, a later experiment
\* overwriting an earlier one's entry for the same sample
RECURSIVE sample_to_study_map(_)
sample_to_study_map(experiments) ==
    IF experiments = <<>> THEN EmptyDict
    ELSE LET n == Len(experiments)
             experiment == experiments[n]
             sample_ref == Or(Get(experiment, "sample_ref", None),
                              Get(experiment, "title", EmptyStr))
             study_ref == Or(Get(experiment, "study_ref", None),
                             Get(experiment, "title", EmptyStr))
         IN  Put(sample_to_study_map(SubSeq(experiments, 1, n - 1)),
                 sample_ref, study_ref)

\* studies_map: accession (or title) -> study, a later study overwriting
RECURSIVE studies_map(_)
studies_map(studies) ==
    IF studies = <<>> THEN EmptyDict
    ELSE LET n == Len(studies)
             study == studies[n]
         IN  Put(studies_map(SubSeq(studies, 1, n - 1)),
                 Or(Get(study, "accession", None), Get(study, "title", EmptyStr)),
                 study)

JsonProjectAccession(project_data) ==
    Or(Get(project_data, "accession", None), Get(project_data, "title", EmptyStr))

JsonProject(d) ==
    LET project_data == Get(d, "bioproject", EmptyDict)
        project_type == Get(project_data, "project_type", EmptyDict)
        target == Get(project_type, "target", EmptyDict)
        organism == Get(target, "organism", EmptyDict)
        submission == Get(project_data, "submission", EmptyDict)
        organization == Get(submission, "organization", EmptyDict)
    IN  [id |-> Get(project_data, "id", EmptyStr),
         accession |-> JsonProjectAccession(project_data),
         archive |-> Get(project_data, "archive", EmptyStr),
         organism_name |-> Get(project_data, "organism_name", EmptyStr),
         title |-> Get(project_data, "title", EmptyStr),
         description |-> Get(project_data, "description", EmptyStr),
         release_date |-> Get(project_data, "release_date", EmptyStr),
         organism_taxID |-> Get(organism, "taxID", EmptyStr),
         method |-> Get(project_type, "method", EmptyStr),
         data_types |-> Get(project_type, "data_types", <<>>),
         project_data_type |-> Get(project_type, "project_data_type", EmptyStr),
         submitted_date |-> Get(submission, "submitted", EmptyStr),
         organization_name |-> Get(organization, "name", EmptyStr)]

\* JsonSampleAccession without the title in the fallback chain
JsonSampleAccessionNoTitle(biosample) ==
    Or(Get(biosample, "accession", None), Get(biosample, "scientific_name", EmptyStr))

JsonSampleAccession(biosample) ==
    Or(Get(biosample, "accession", None),
       Or(Get(biosample, "title", None), Get(biosample, "scientific_name", EmptyStr)))

JsonSample(d, biosample) ==
    LET sample_ref == JsonSampleAccession(biosample)
        study_ref == Get(sample_to_study_map(Get(d, "experiments", <<>>)),
                         sample_ref, None)
        study_data == Get(studies_map(Get(d, "studies", <<>>)), study_ref, EmptyDict)
    IN  [accession |-> JsonSampleAccession(biosample),
         title |-> Get(biosample, "title", EmptyStr),
         scientific_name |-> Get(biosample, "scientific_name", EmptyStr),
         taxon_id |-> Get(biosample, "taxon_id", EmptyStr),
         attributes |-> Get(biosample, "attributes", EmptyDict),
         study_accession |-> study_ref,
         study_center_name |-> Get(study_data, "center_name", None),
         study_title |-> Get(study_data, "title", None),
         study_abstract |-> Get(study_data, "abstract", None),
         study_description |-> Get(study_data, "description", None)]

JsonExperimentAccession(exp) ==
    Or(Get(exp, "accession", None), Get(exp, "title", EmptyStr))

JsonExperiment(exp) ==
    LET design == Get(exp, "design", EmptyDict)
        platform == Get(exp, "platform", EmptyDict)
    IN  [accession |-> JsonExperimentAccession(exp),
         title |-> Get(exp, "title", EmptyStr),
         study_ref |-> Or(Get(exp, "study_ref", None), Get(exp, "title", EmptyStr)),
         sample_ref |-> Or(Get(exp, "sample_ref", None), Get(exp, "title", EmptyStr)),
         library_name |-> Get(design, "library_name", EmptyStr),
         library_strategy |-> Get(design, "library_strategy", EmptyStr),
         library_source |-> Get(design, "library_source", EmptyStr),
         library_selection |-> Get(design, "library_selection", EmptyStr),
         library_layout |-> Get(design, "library_layout", EmptyStr),
         nominal_length |-> Get(design, "nominal_length", EmptyStr),
         platform_type |-> Get(platform, "type", EmptyStr),
         instrument_model |-> Get(platform, "instrument_model", EmptyStr)]

\* url.split("/")[-1]: the part of url after its last "/"
RECURSIVE LastSegment(_)
LastSegment(url) ==
    IF url = <<>> THEN <<>>
    ELSE IF url[Len(url)] = "/" THEN <<>>
    ELSE LastSegment(SubSeq(url, 1, Len(url) - 1)) \o <<url[Len(url)]>>

JsonOutputFile(file) ==
    [filename |-> Or(Get(file, "filename", None),
                     Or(LastSegment(Get(file, "url", EmptyStr)), EmptyStr)),
     size |-> Get(file, "size", Zero),
     date |-> Get(file, "date", EmptyStr),
     url |-> Get(file, "url", EmptyStr),
     md5 |-> Get(file, "md5", EmptyStr)]

JsonOutputAccession(run) ==
    Or(Get(run, "accession", None), Get(run, "title", EmptyStr))

JsonOutput(run) ==
    LET base_composition == Get(run, "base_composition", EmptyDict)
        files == Get(run, "files", <<>>)
    IN  [accession |-> JsonOutputAccession(run),
         title |-> Get(run, "title", EmptyStr),
         experiment_ref |-> Or(Get(run, "experiment_ref", None),
                               Get(run, "title", EmptyStr)),
         total_spots |-> Get(run, "total_spots", Zero),
         total_bases |-> Get(run, "total_bases", Zero),
         size |-> Get(run, "size", Zero),
         published |-> Get(run, "published", EmptyStr),
         files |-> [i \in 1..Len(files) |-> JsonOutputFile(files[i])],
         nreads |-> Get(run, "nreads", Zero),
         nspots |-> Get(run, "nspots", Zero),
         a_count |-> Get(base_composition, "A", Zero),
         c_count |-> Get(base_composition, "C", Zero),
         g_count |-> Get(base_composition, "G", Zero),
         t_count |-> Get(base_composition, "T", Zero),
         n_count |-> Get(base_composition, "N", Zero)]

from_json(d) ==
    LET biosamples == Get(d, "biosamples", <<>>)
        exps == Get(d, "experiments", <<>>)
        runs == Get(d, "runs", <<>>)
    IN  [project |-> JsonProject(d),
         samples |-> [i \in 1..Len(biosamples) |-> JsonSample(d, biosamples[i])],
         experiments |-> [i \in 1..Len(exps) |-> JsonExperiment(exps[i])],
         outputs |-> [i \in 1..Len(runs) |-> JsonOutput(runs[i])]]

(***************************************************************************)
(* to_pep: GenomicData -> project_config.yaml + samples / subsamples CSV.  *)
(***************************************************************************)
\* the date part of project.release_date
ReleaseDay(project) ==
    IF Contains(project.release_date, "T")
    THEN SplitFirst(project.release_date, "T")
    ELSE project.release_date

SampleAccessions(samples) == [i \in 1..Len(samples) |-> samples[i].accession]

project_config(g) ==
    LET project == g.project
    IN  [name |-> Lower(project.accession),
         pep_version |-> PepVersion,
         sample_table |-> project.accession \o SamplesSuffix,
         subsample_table |-> project.accession \o SubsamplesSuffix,
         experiment_metadata |->
            [series_contact_institute |-> project.organization_name,
             series_bioproject_accession |-> project.accession,
             series_last_update_date |-> ReleaseDay(project),
             series_overall_design |-> project.description,
             series_platform_organism |-> project.organism_name,
             series_platform_taxid |-> project.organism_taxID,
             series_relation |-> BioprojectRel \o project.accession,
             series_sample_id |-> Join(SampleAccessions(g.samples), PlusSep),
             series_sample_organism |-> project.organism_name,
             series_sample_taxid |-> project.organism_taxID,
             series_submission_date |-> project.submitted_date,
             series_summary |-> project.description,
             series_title |-> project.title,
             series_type |-> ProfilingBy \o project.method],
         description |-> DataFrom \o project.archive \o Space \o project.accession
                         \o Space \o project.title]

\* sample_to_experiment_map: sample_ref -> the experiments naming it, in order
RECURSIVE sample_to_experiment_map(_)
sample_to_experiment_map(experiments) ==
    IF experiments = <<>> THEN EmptyDict
    ELSE LET n == Len(experiments)
             experiment == experiments[n]
             m == sample_to_experiment_map(SubSeq(experiments, 1, n - 1))
         IN  Put(m, experiment.sample_ref,
                 Append(Get(m, experiment.sample_ref, <<>>), experiment))

\* experiment_to_output_map keeping only the last output of an experiment
RECURSIVE ExperimentToLastOutputMap(_)
ExperimentToLastOutputMap(outputs) ==
    IF outputs = <<>> THEN EmptyDict
    ELSE LET n == Len(outputs)
             output == outputs[n]
             m == ExperimentToLastOutputMap(SubSeq(outputs, 1, n - 1))
         IN  IF output.experiment_ref \in DOMAIN m THEN m
             ELSE Put(m, output.experiment_ref, <<output>>)

\* experiment_to_output_map: experiment_ref -> the outputs naming it, in order
RECURSIVE experiment_to_output_map(_)
experiment_to_output_map(outputs) ==
    IF outputs = <<>> THEN EmptyDict
    ELSE LET n == Len(outputs)
             output == outputs[n]
             m == experiment_to_output_map(SubSeq(outputs, 1, n - 1))
         IN  Put(m, output.experiment_ref,
                 Append(Get(m, output.experiment_ref, <<>>), output))

\* accession.lower().replace("-", "_")
SampleName(accession) == Replace(Lower(accession), "-", "_")

\* the row dict of one sample, before the free attributes are merged in
SampleRowNamed(g, sample) ==
    LET project == g.project
        sex == Get(sample.attributes, "sex", EmptyStr)
        cell_type == Get(sample.attributes, "cell_type", EmptyStr)
        tissue_type == Get(sample.attributes, "tissue_type", EmptyStr)
        row == [sample_name |-> SampleName(sample.accession),
                protocol |-> EmptyStr,
                organism |-> sample.scientific_name,
                sample_title |-> Or(sample.title,
                                    sample.scientific_name \o Space \o sample.accession),
                sample_accession |-> sample.accession,
                sample_status |-> PublicOn \o ReleaseDay(project),
                sample_submission_date |-> project.submitted_date,
                sample_last_update_date |-> ReleaseDay(project),
                sample_type |-> SRA,
                sample_channel_count |-> One,
                sample_source_name_ch1 |->
                    Or(tissue_type, Or(cell_type, sample.scientific_name)),
                sample_organism_ch1 |-> sample.scientific_name,
                sample_taxid_ch1 |-> sample.taxon_id,
                sample_contact_institute |-> project.organization_name,
                sample_series_id |-> project.accession,
                gsm_id |-> sample.accession,
                sex |-> sex,
                tissue |-> tissue_type,
                celltype |-> cell_type,
                treatment |-> EmptyStr,
                biosample |-> BiosampleUrl \o sample.accession]
        study == [study_accession |-> sample.study_accession,
                  study_title |-> Or(sample.study_title, EmptyStr),
                  study_center_name |-> Or(sample.study_center_name, EmptyStr),
                  study_abstract |-> Or(sample.study_abstract, EmptyStr),
                  study_description |-> Or(sample.study_description, EmptyStr)]
        with_study == IF Truthy(sample.study_accession) THEN Merge(row, study) ELSE row
        experiments == Get(sample_to_experiment_map(g.experiments),
                           sample.accession, <<>>)
    IN  IF experiments # <<>>
        THEN Put(with_study, "protocol", experiments[1].library_strategy)
        ELSE with_study

\* MergeAttributes without the test `key not in row`
MergeAttributesOverwriting(row, attributes) == Merge(row, attributes)

\* MergeAttributes with the merge loop left out
MergeAttributesDropped(row, attributes) == row

\* for key, value in sample.attributes.items(): if key not in row: row[key] = value
MergeAttributes(row, attributes) == Merge(attributes, row)

SampleRow(g, sample) == MergeAttributes(SampleRowNamed(g, sample), sample.attributes)

samples_data(g) == [i \in 1..Len(g.samples) |-> SampleRow(g, g.samples[i])]

FileSuffixes == {"", "_md5", "_size", "_date"}

\* f"file_{i}", f"file_{i}_md5", ...
FileCol(i, suffix) == "file_" \o ToString(i) \o suffix

FileField(file, suffix) ==
    CASE suffix = "" -> file.url
      [] suffix = "_md5" -> file.md5
      [] suffix = "_size" -> file.size
      [] suffix = "_date" -> file.date

\* FileColumns with the files numbered from 0 (enumerate without its start)
FileColumnsFromZero(files) ==
    LET idx == (1..Len(files)) \X FileSuffixes
    IN  [c \in {FileCol(p[1] - 1, p[2]) : p \in idx} |->
            LET p == CHOOSE q \in idx : FileCol(q[1] - 1, q[2]) = c
            IN  FileField(files[p[1]], p[2])]

\* for i, file in enumerate(output.files, 1): the four columns of each file
FileColumns(files) ==
    LET idx == (1..Len(files)) \X FileSuffixes
    IN  [c \in {FileCol(p[1], p[2]) : p \in idx} |->
            LET p == CHOOSE q \in idx : FileCol(q[1], q[2]) = c
            IN  FileField(files[p[1]], p[2])]

SubsampleRow(sample, experiment, output) ==
    LET row == [sample_name |-> SampleName(sample.accession),
                subsample_name |-> SampleName(output.accession),
                srr |-> output.accession,
                srx |-> experiment.accession,
                total_spots |-> output.total_spots,
                total_bases |-> output.total_bases,
                size |-> output.size,
                published |-> output.published,
                nreads |-> output.nreads,
                nspots |-> output.nspots,
                a_count |-> output.a_count,
                c_count |-> output.c_count,
                g_count |-> output.g_count,
                t_count |-> output.t_count,
                n_count |-> output.n_count,
                read_type |-> experiment.library_layout,
                data_source |-> experiment.platform_type,
                library_name |-> experiment.library_name,
                library_strategy |-> experiment.library_strategy,
                library_source |-> experiment.library_source,
                library_selection |-> experiment.library_selection,
                library_layout |-> experiment.library_layout,
                nominal_length |-> experiment.nominal_length,
                instrument_model |-> experiment.instrument_model,
                platform_type |-> experiment.platform_type,
                experiment_title |-> experiment.title]
    IN  Merge(row, FileColumns(output.files))

\* the concatenation of a sequence of sequences
RECURSIVE Flatten(_)
Flatten(ss) == IF ss = <<>> THEN <<>> ELSE Head(ss) \o Flatten(Tail(ss))

\* the rows of one sample: for experiment in experiments: for output in outputs
SubsampleRowsOf(g, sample) ==
    LET experiments == Get(sample_to_experiment_map(g.experiments),
                           sample.accession, <<>>)
        RowsOf(experiment) ==
            LET outputs == Get(experiment_to_output_map(g.outputs),
                               experiment.accession, <<>>)
            IN  [k \in 1..Len(outputs) |-> SubsampleRow(sample, experiment, outputs[k])]
    IN  Flatten([j \in 1..Len(experiments) |-> RowsOf(experiments[j])])

subsamples_data(g) ==
    Flatten([i \in 1..Len(g.samples) |-> SubsampleRowsOf(g, g.samples[i])])

\* what csv writes for a value: None is written as the empty field
CsvCell(v) == IF v = None THEN EmptyStr ELSE v

\* csv.DictWriter over the union of the rows' keys, a missing key written empty;
\* read back by csv.DictReader every cell is a str
WriteCsv(rows) ==
    LET fieldnames == UNION {DOMAIN rows[i] : i \in 1..Len(rows)}
    IN  [header |-> fieldnames,
         rows |-> [i \in 1..Len(rows) |->
                     [c \in fieldnames |-> CsvCell(Get(rows[i], c, EmptyStr))]]]

\* to_pep without the tests `if samples_data` and `if subsamples_data`
ToPepAlwaysWriting(g, dir) ==
    LET config == project_config(g)
    IN  Put(Put(Put(dir, ConfigName, config),
                config.sample_table, WriteCsv(samples_data(g))),
            config.subsample_table, WriteCsv(subsamples_data(g)))

\* the directory after to_pep: the config is always written, a CSV only when
\* its row list is not empty
to_pep(g, dir) ==
    LET config == project_config(g)
        d1 == Put(dir, ConfigName, config)
        d2 == IF samples_data(g) # <<>>
              THEN Put(d1, config.sample_table, WriteCsv(samples_data(g)))
              ELSE d1
    IN  IF subsamples_data(g) # <<>>
        THEN Put(d2, config.subsample_table, WriteCsv(subsamples_data(g)))
        ELSE d2

(***************************************************************************)
(* from_pep: project_config.yaml + CSVs -> GenomicData.                    *)
(***************************************************************************)
UpperLetters ==
    {"A", "B", "C", "D", "E", "F", "G", "H", "I", "J", "K", "L", "M",
     "N", "O", "P", "Q", "R", "S", "T", "U", "V", "W", "X", "Y", "Z"}

UpperChar(c) ==
    IF \E u \in UpperLetters : u # c /\ LowerChar(u) = c
    THEN CHOOSE u \in UpperLetters : LowerChar(u) = c
    ELSE c

\* s.upper()
Upper(s) == [i \in 1..Len(s) |-> UpperChar(s[i])]

\* s.replace(p, '') for a p that occurs in s, if at all, as its prefix
RemovePrefix(s, p) ==
    IF Len(s) >= Len(p) /\ SubSeq(s, 1, Len(p)) = p
    THEN SubSeq(s, Len(p) + 1, Len(s))
    ELSE s

\* the rows csv.DictReader yields for a table of the directory, [] if no file
ReadCsv(dir, name) == IF name \in DOMAIN dir THEN dir[name].rows ELSE <<>>

PepProject(config) ==
    LET experiment_metadata == Get(config, "experiment_metadata", EmptyDict)
        name == Get(config, "name", EmptyStr)
    IN  [id |-> Upper(name),
         accession |-> Get(experiment_metadata, "series_bioproject_accession",
                           Upper(name)),
         archive |-> IF "series_relation" \in DOMAIN experiment_metadata
                     THEN SplitFirst(experiment_metadata["series_relation"], ":")
                     ELSE Unknown,
         organism_name |-> Get(experiment_metadata, "series_sample_organism", EmptyStr),
         title |-> Get(experiment_metadata, "series_title", EmptyStr),
         description |-> Get(experiment_metadata, "series_summary",
                             Get(experiment_metadata, "series_overall_design",
                                 EmptyStr)),
         release_date |-> Get(experiment_metadata, "series_last_update_date", EmptyStr),
         organism_taxID |-> Get(experiment_metadata, "series_platform_taxid", EmptyStr),
         method |-> RemovePrefix(Get(experiment_metadata, "series_type", EmptyStr),
                                 ProfilingBy),
         data_types |-> <<>>,
         project_data_type |-> EmptyStr,
         submitted_date |-> Get(experiment_metadata, "series_submission_date",
                                EmptyStr),
         organization_name |-> Get(experiment_metadata, "series_contact_institute",
                                   EmptyStr)]

\* the columns from_pep stores outside of attributes
PepSkipKeys ==
    {"sample_name", "sample_accession", "scientific_name", "taxon_id", "title",
     "accession", "study_accession", "study_title", "study_center_name",
     "study_abstract", "study_description"}

\* the attributes of a samples row: every other column with a non-empty value
PepAttributes(sample_row) ==
    [key \in {k \in DOMAIN sample_row :
                 k \notin PepSkipKeys /\ Truthy(sample_row[k])} |-> sample_row[key]]

\* PepSampleAccession reading the normalised sample_name instead
PepSampleAccessionByName(sample_row) == Get(sample_row, "sample_name", EmptyStr)

PepSampleAccession(sample_row) ==
    Get(sample_row, "sample_accession",
        Get(sample_row, "gsm_id", Get(sample_row, "sample_name", EmptyStr)))

PepSample(sample_row) ==
    [accession |-> PepSampleAccession(sample_row),
     title |-> Get(sample_row, "title", Get(sample_row, "sample_title", EmptyStr)),
     scientific_name |->
        Get(sample_row, "scientific_name",
            Get(sample_row, "organism", Get(sample_row, "sample_organism_ch1",
                                            EmptyStr))),
     taxon_id |-> Get(sample_row, "taxon_id",
                      Get(sample_row, "sample_taxid_ch1", EmptyStr)),
     attributes |-> PepAttributes(sample_row),
     study_accession |-> Get(sample_row, "study_accession", EmptyStr),
     study_center_name |-> Get(sample_row, "study_center_name", EmptyStr),
     study_title |-> Get(sample_row, "study_title", EmptyStr),
     study_abstract |-> Get(sample_row, "study_abstract", EmptyStr),
     study_description |-> Get(sample_row, "study_description", EmptyStr)]

\* PepResolveSample handing back the row's sample_name instead of the
\* accession of the Sample found
PepResolveSampleName(samples, sample_name) == sample_name

\* the accession of the first sample whose normalised accession is sample_name
PepResolveSample(samples, sample_name) ==
    LET hits == {i \in 1..Len(samples) : SampleName(samples[i].accession) = sample_name}
    IN  IF hits = {} THEN EmptyStr
        ELSE samples[CHOOSE i \in hits : \A j \in hits : i <= j].accession

PepExperiment(samples, subsample_row) ==
    [accession |-> Get(subsample_row, "srx", EmptyStr),
     title |-> Get(subsample_row, "experiment_title", EmptyStr),
     study_ref |-> Get(subsample_row, "study_accession", EmptyStr),
     sample_ref |-> PepResolveSample(samples, Get(subsample_row, "sample_name",
                                                  EmptyStr)),
     library_name |-> Get(subsample_row, "library_name", EmptyStr),
     library_strategy |-> Get(subsample_row, "library_strategy", EmptyStr),
     library_source |-> Get(subsample_row, "library_source", EmptyStr),
     library_selection |-> Get(subsample_row, "library_selection", EmptyStr),
     library_layout |-> Get(subsample_row, "library_layout",
                            Get(subsample_row, "read_type", EmptyStr)),
     nominal_length |-> Get(subsample_row, "nominal_length", EmptyStr),
     platform_type |-> Get(subsample_row, "platform_type",
                           Get(subsample_row, "data_source", EmptyStr)),
     instrument_model |-> Get(subsample_row, "instrument_model", EmptyStr)]

\* one experiment per distinct srx, built from the first row that carries it
RECURSIVE PepExperiments(_, _)
PepExperiments(samples, subsample_rows) ==
    IF subsample_rows = <<>> THEN <<>>
    ELSE LET n == Len(subsample_rows)
             before == PepExperiments(samples, SubSeq(subsample_rows, 1, n - 1))
             experiment_accession == Get(subsample_rows[n], "srx", EmptyStr)
         IN  IF \E j \in 1..Len(before) : before[j].accession = experiment_accession
             THEN before
             ELSE Append(before, PepExperiment(samples, subsample_rows[n]))

\* while f'file_{i}' in subsample_row: the files with a non-empty url, from i on
RECURSIVE PepFiles(_, _)
PepFiles(subsample_row, i) ==
    IF FileCol(i, "") \notin DOMAIN subsample_row THEN <<>>
    ELSE LET file_url == subsample_row[FileCol(i, "")]
             rest == PepFiles(subsample_row, i + 1)
         IN  IF Truthy(file_url)
             THEN <<[filename |-> LastSegment(file_url),
                     size |-> Get(subsample_row, FileCol(i, "_size"), EmptyStr),
                     date |-> Get(subsample_row, FileCol(i, "_date"), EmptyStr),
                     url |-> file_url,
                     md5 |-> Get(subsample_row, FileCol(i, "_md5"), EmptyStr)]>>
                  \o rest
             ELSE rest

PepOutput(subsample_row) ==
    [accession |-> Get(subsample_row, "srr", EmptyStr),
     title |-> Get(subsample_row, "subsample_name", EmptyStr),
     experiment_ref |-> Get(subsample_row, "srx", EmptyStr),
     total_spots |-> Get(subsample_row, "total_spots", EmptyStr),
     total_bases |-> Get(subsample_row, "total_bases", EmptyStr),
     size |-> Get(subsample_row, "size", EmptyStr),
     published |-> Get(subsample_row, "published", EmptyStr),
     files |-> PepFiles(subsample_row, 1),
     nreads |-> Get(subsample_row, "nreads", EmptyStr),
     nspots |-> Get(subsample_row, "nspots", EmptyStr),
     a_count |-> Get(subsample_row, "a_count", EmptyStr),
     c_count |-> Get(subsample_row, "c_count", EmptyStr),
     g_count |-> Get(subsample_row, "g_count", EmptyStr),
     t_count |-> Get(subsample_row, "t_count", EmptyStr),
     n_count |-> Get(subsample_row, "n_count", EmptyStr)]

\* from_pep on the project_config.yaml of directory dir
from_pep(dir) ==
    LET config == dir[ConfigName]
        sample_rows == ReadCsv(dir, Get(config, "sample_table", EmptyStr))
        subsample_rows == ReadCsv(dir, Get(config, "subsample_table", EmptyStr))
        samples == [i \in 1..Len(sample_rows) |-> PepSample(sample_rows[i])]
    IN  [project |-> PepProject(config),
         samples |-> samples,
         experiments |-> PepExperiments(samples, subsample_rows),
         outputs |-> [i \in 1..Len(subsample_rows) |-> PepOutput(subsample_rows[i])]]

(***************************************************************************)
(* to_rocrate: GenomicData -> RO-Crate graph.  The crate-writing library   *)
(* (GenerateROCrate, GenerateSample, GenerateInstrument, GenerateExperiment,*)
(* GenerateDataset, AppendCrate) is an external collaborator: a Generate*  *)
(* call returns a node holding the fields it was given under a freshly     *)
(* minted guid, AppendCrate appends nodes to the @graph.  A node is a      *)
(* function from field names to values; additionalProperty is the bag of   *)
(* its (propertyID, value) records.  The field src of an Experiment node   *)
(* is a history field, the index of the Experiment entry the node was      *)
(* generated for; no action reads it.                                      *)
(***************************************************************************)
Biosample ==
    <<"b", "i", "o", "s", "a", "m", "p", "l", "e">>

Sampple ==
    <<"S", "a", "m", "p", "p", "l", "e", " ">>

UsedForSequencing ==
    <<" ", "u", "s", "e", "d", " ", "f", "o", "r", " ", "s", "e", "q", "u",
      "e", "n", "c", "i", "n", "g">>

Using ==
    <<" ", "u", "s", "i", "n", "g", " ">>

Protocol ==
    <<" ", "p", "r", "o", "t", "o", "c", "o", "l">>

SequencingRun ==
    <<"S", "e", "q", "u", "e", "n", "c", "i", "n", "g", " ", "r", "u", "n",
      " ">>

FromExperiment ==
    <<" ", "f", "r", "o", "m", " ", "e", "x", "p", "e", "r", "i", "m", "e",
      "n", "t", " ">>

Sequencing ==
    <<"s", "e", "q", "u", "e", "n", "c", "i", "n", "g">>

Run ==
    <<"r", "u", "n">>

SraFormat ==
    <<"s", "r", "a">>

ArkPrefix ==
    <<"a", "r", "k", ":">>

CellosaurusPrefix ==
    <<"a", "r", "k", ":", "c", "e", "l", "l", "o", "s", "a", "u", "r", "u",
      "s", "/">>

\* MintGuid handing out one identifier for every node
MintGuidOnce(n) == ArkPrefix \o <<"0">>

\* the n-th guid the library mints
MintGuid(n) == ArkPrefix \o <<ToString(n)>>

\* an insertion-ordered dict: a sequence of [key, value], keys distinct
OdHas(od, k) == \E j \in 1..Len(od) : od[j].key = k

OdGet(od, k, default) ==
    IF OdHas(od, k) THEN od[CHOOSE j \in 1..Len(od) : od[j].key = k].value
    ELSE default

OdPut(od, k, v) ==
    IF OdHas(od, k)
    THEN [j \in 1..Len(od) |-> IF od[j].key = k THEN [key |-> k, value |-> v] ELSE od[j]]
    ELSE Append(od, [key |-> k, value |-> v])

OdValues(od) == [j \in 1..Len(od) |-> od[j].value]

\* None, where the other values are records
NoEntity == [type |-> "None"]

\* the outcomes of get_cell_line_entity(cell_line)
LookupOutcomes == {"found", "not_found", "raises"}

\* the entity a successful lookup returns for a cell line
CellLineEntity(cell_line) ==
    [id |-> CellosaurusPrefix \o cell_line, type |-> "CellLine", name |-> cell_line]

\* the first of the attributes cell_line, "cell line", cell_line_name
SampleCellLine(sample) ==
    IF "cell_line" \in DOMAIN sample.attributes THEN sample.attributes["cell_line"]
    ELSE IF "cell line" \in DOMAIN sample.attributes
         THEN sample.attributes["cell line"]
    ELSE IF "cell_line_name" \in DOMAIN sample.attributes
         THEN sample.attributes["cell_line_name"]
    ELSE None

\* the (propertyID, value) records of a dict's entries
PropertyBag(d) == SetToBag({<<k, d[k]>> : k \in DOMAIN d})

\* SampleAttributes keeping the attributes of an enriched sample
\* LookedUp with the except clause left out of account: a lookup that raised
\* is taken for one that found the entity
LookedUpUnlessNotFound(outcome, cell_line) ==
    IF outcome \in {"found", "raises"} THEN CellLineEntity(cell_line) ELSE NoEntity

\* cell_line_entity after the try/except around get_cell_line_entity: the
\* entity when the lookup found one, None when it found none, raised or was
\* not called
LookedUp(outcome, cell_line) ==
    IF outcome = "found" THEN CellLineEntity(cell_line) ELSE NoEntity

SampleAttributesKept(sample, cell_line_entity) == sample.attributes

\* sample_data["attributes"]: {} when a cell-line entity was found
SampleAttributes(sample, cell_line_entity) ==
    IF cell_line_entity # NoEntity THEN EmptyDict ELSE sample.attributes

\* GenerateSample(**sample_data) for a sample, given the looked-up entity
\* (NoEntity when there is none)
SampleNode(sample, cell_line_entity, guid) ==
    LET accession == sample.accession
        cell_line == SampleCellLine(sample)
        keywords == <<Biosample, sample.scientific_name>>
                    \o (IF Truthy(cell_line) THEN <<cell_line>> ELSE <<>>)
        fixed == SetToBag({<<"accession", accession>>,
                           <<"scientific_name", sample.scientific_name>>,
                           <<"taxon_id", sample.taxon_id>>})
        sample_data ==
            [type |-> "Sample",
             id |-> guid,
             accession |-> accession,
             name |-> Or(sample.title, EmptyStr),
             taxon_id |-> sample.taxon_id,
             description |-> Or(sample.title, Sampple \o accession),
             keywords |-> keywords,
             contentUrl |-> BiosampleUrl \o accession,
             additionalProperty |->
                IF cell_line_entity # NoEntity THEN fixed
                ELSE fixed (+) PropertyBag(sample.attributes),
             attributes |-> SampleAttributes(sample, cell_line_entity)]
    IN  IF cell_line_entity # NoEntity
        THEN Merge(sample_data,
                   [cellLineReference |-> [id |-> cell_line_entity.id],
                    cell_line_reference |-> [id |-> cell_line_entity.id]])
        ELSE sample_data

\* f"{platform_type}_{instrument_model}"
InstrumentKey(experiment) ==
    experiment.platform_type \o Underscore \o experiment.instrument_model

InstrumentNode(experiment, guid) ==
    [type |-> "Instrument",
     id |-> guid,
     name |-> experiment.instrument_model,
     manufacturer |-> experiment.platform_type,
     model |-> experiment.instrument_model,
     description |-> experiment.instrument_model \o UsedForSequencing]

\* sample_guid = id_mapping.get(sample_ref, None); [sample_guid] if sample_guid else []
UsedSamples(id_mapping, sample_ref) ==
    LET sample_guid == Get(id_mapping, sample_ref, None)
    IN  IF Truthy(sample_guid) THEN <<sample_guid>> ELSE <<>>

ExperimentNode(experiment, src, id_mapping, instrument_software_guid, guid) ==
    [type |-> "Experiment",
     id |-> guid,
     src |-> src,
     name |-> experiment.title,
     experimentType |-> experiment.library_strategy,
     description |-> experiment.title \o Using \o experiment.instrument_model,
     protocol |-> experiment.library_strategy \o Protocol,
     usedInstrument |-> IF Truthy(instrument_software_guid)
                        THEN <<instrument_software_guid>> ELSE <<>>,
     usedSample |-> UsedSamples(id_mapping, experiment.sample_ref),
     generated |-> <<>>,
     additionalProperty |->
        <<<<"accession", experiment.accession>>,
          <<"library_name", experiment.library_name>>,
          <<"library_strategy", experiment.library_strategy>>,
          <<"library_source", experiment.library_source>>,
          <<"library_selection", experiment.library_selection>>,
          <<"library_layout", experiment.library_layout>>,
          <<"nominal_length", experiment.nominal_length>>>>]

\* [file.url for file in output.files if file.url]
RECURSIVE FileUrls(_)
FileUrls(files) ==
    IF files = <<>> THEN <<>>
    ELSE (IF Truthy(Head(files).url) THEN <<Head(files).url>> ELSE <<>>)
         \o FileUrls(Tail(files))

DatasetNode(output, experiment_guids, guid) ==
    [type |-> "Dataset",
     id |-> guid,
     name |-> output.title,
     description |-> SequencingRun \o output.accession \o FromExperiment
                     \o output.experiment_ref,
     keywords |-> <<Sequencing, Run, output.total_spots>>,
     datePublished |-> output.published,
     format |-> SraFormat,
     generatedBy |-> <<Get(experiment_guids, output.experiment_ref, EmptyStr)>>,
     contentUrl |-> IF FileUrls(output.files) # <<>> THEN FileUrls(output.files)
                    ELSE None]

Bioproject ==
    <<"b", "i", "o", "p", "r", "o", "j", "e", "c", "t">>

Bioinformatics ==
    <<"b", "i", "o", "i", "n", "f", "o", "r", "m", "a", "t", "i", "c", "s">>

MetadataFile ==
    <<"r", "o", "-", "c", "r", "a", "t", "e", "-", "m", "e", "t", "a", "d",
      "a", "t", "a", ".", "j", "s", "o", "n">>

BioprojectUrl ==
    <<"h", "t", "t", "p", "s", ":", "/", "/", "w", "w", "w", ".", "n", "c",
      "b", "i", ".", "n", "l", "m", ".", "n", "i", "h", ".", "g", "o", "v",
      "/", "b", "i", "o", "p", "r", "o", "j", "e", "c", "t", "/">>

CellLineFilePrefix ==
    <<"c", "e", "l", "l", "_", "l", "i", "n", "e", "_">>

JsonSuffix ==
    <<".", "j", "s", "o", "n">>

\* s.replace(c, '') for a single character c
RECURSIVE RemoveChar(_, _)
RemoveChar(s, c) ==
    IF s = <<>> THEN <<>>
    ELSE (IF Head(s) = c THEN <<>> ELSE <<Head(s)>>) \o RemoveChar(Tail(s), c)

crate_keywords(bioproject) ==
    <<Bioproject, Bioinformatics>>
    \o (IF Truthy(bioproject.organism_name) THEN <<bioproject.organism_name>> ELSE <<>>)
    \o [j \in 1..Len(bioproject.data_types) |-> RemoveChar(bioproject.data_types[j], "e")]
    \o (IF Truthy(bioproject.project_data_type)
        THEN <<bioproject.project_data_type>> ELSE <<>>)

\* the @graph GenerateROCrate writes: the metadata descriptor, then the root
RootCrate(bioproject, guid) ==
    <<[type |-> "CreativeWork", id |-> MetadataFile],
      [type |-> "ROCrate",
       id |-> guid,
       name |-> bioproject.title,
       description |-> bioproject.description,
       keywords |-> crate_keywords(bioproject),
       url |-> BioprojectUrl \o bioproject.accession]>>

\* Position with the outputs loop left out
PositionSkippingOutputs(g, step, i) ==
    IF step = "samples" /\ i <= Len(g.samples) THEN [step |-> "samples", i |-> i]
    ELSE IF step = "samples" /\ Len(g.experiments) >= 1
         THEN [step |-> "experiments", i |-> 1]
    ELSE IF step = "experiments" /\ i <= Len(g.experiments)
         THEN [step |-> "experiments", i |-> i]
    ELSE [step |-> "finish", i |-> 0]

\* where to_rocrate continues from loop `step` at index i: an exhausted loop
\* falls through to the next one
Position(g, step, i) ==
    IF step = "samples" /\ i <= Len(g.samples) THEN [step |-> "samples", i |-> i]
    ELSE IF step = "samples" /\ Len(g.experiments) >= 1
         THEN [step |-> "experiments", i |-> 1]
    ELSE IF step = "experiments" /\ i <= Len(g.experiments)
         THEN [step |-> "experiments", i |-> i]
    ELSE IF step \in {"samples", "experiments"} /\ Len(g.outputs) >= 1
         THEN [step |-> "outputs", i |-> 1]
    ELSE IF step = "outputs" /\ i <= Len(g.outputs) THEN [step |-> "outputs", i |-> i]
    ELSE [step |-> "finish", i |-> 0]

\* the graph with the fetched cell-line entities merged in, one whose @id is
\* already in the graph being skipped
RECURSIVE MergeEntities(_, _)
MergeEntities(graph, entities) ==
    IF entities = <<>> THEN graph
    ELSE MergeEntities(
            IF \E j \in 1..Len(graph) : graph[j].id = Head(entities).id
            THEN graph ELSE Append(graph, Head(entities)),
            Tail(entities))

\* cell_line_{cell_line.replace(' ', '_')}.json
CellLineFile(cell_line) ==
    CellLineFilePrefix \o Replace(cell_line, " ", "_") \o JsonSuffix

\* WithGenerated appending the back-reference twice
WithGeneratedTwice(experiment_objects, experiment_ref, dataset_guid) ==
    LET experiment_computation == OdGet(experiment_objects, experiment_ref, NoEntity)
    IN  IF experiment_computation # NoEntity
        THEN OdPut(experiment_objects, experiment_ref,
                   [experiment_computation EXCEPT
                       !.generated = @ \o <<[id |-> dataset_guid], [id |-> dataset_guid]>>])
        ELSE experiment_objects

\* WithGenerated clearing the experiment object's usedSample as well
WithGeneratedClearingSamples(experiment_objects, experiment_ref, dataset_guid) ==
    LET experiment_computation == OdGet(experiment_objects, experiment_ref, NoEntity)
    IN  IF experiment_computation # NoEntity
        THEN OdPut(experiment_objects, experiment_ref,
                   [experiment_computation EXCEPT
                       !.generated = Append(@, [id |-> dataset_guid]),
                       !.usedSample = <<>>])
        ELSE experiment_objects

\* the experiment object with the back-reference to a dataset appended
WithGenerated(experiment_objects, experiment_ref, dataset_guid) ==
    LET experiment_computation == OdGet(experiment_objects, experiment_ref, NoEntity)
    IN  IF experiment_computation # NoEntity
        THEN OdPut(experiment_objects, experiment_ref,
                   [experiment_computation EXCEPT
                       !.generated = Append(@, [id |-> dataset_guid])])
        ELSE experiment_objects

(***************************************************************************)
(* Raw inputs: the dictionaries from_json is run on.                       *)
(***************************************************************************)
Digit(n) == <<ToString(n)>>

\* the i-th file of the k-th run; no "filename": from_json takes it from the url
RawFile(k, i) ==
    [url |-> <<"x", "/", "u">> \o Digit(k) \o Digit(i),
     md5 |-> <<"m">> \o Digit(k) \o Digit(i),
     size |-> Digit(k) \o Digit(i),
     date |-> <<"d">> \o Digit(k) \o Digit(i)]

\* the k-th run of an input: its accession is R<k>
RawRun(k, experiment_ref, nfiles) ==
    [accession |-> <<"R">> \o Digit(k),
     title |-> <<"r", "u", "n">>,
     experiment_ref |-> experiment_ref,
     published |-> <<"2", "0", "2", "0">>,
     files |-> [i \in 1..nfiles |-> RawFile(k, i)]]

RawExperiment(accession, sample_ref, platform_type, instrument_model) ==
    [accession |-> accession,
     title |-> <<"e", "x", "p">>,
     study_ref |-> <<"S", "T", "1">>,
     sample_ref |-> sample_ref,
     design |-> [library_strategy |-> <<"R", "N", "A", "-", "S", "e", "q">>,
                 library_layout |-> <<"P", "A", "I", "R", "E", "D">>],
     platform |-> [type |-> platform_type, instrument_model |-> instrument_model]]

RawSample(accession, attributes) ==
    [accession |-> accession,
     title |-> <<"T">>,
     scientific_name |-> <<"H", "s">>,
     taxon_id |-> <<"9">>,
     attributes |-> attributes]

RawStudy ==
    [accession |-> <<"S", "T", "1">>, title |-> <<"s", "t">>,
     abstract |-> <<"a", "b">>]

RawProject(fields) ==
    Merge([release_date |-> <<"2", "0", "T", "1">>,
           archive |-> <<"N", "C", "B", "I">>,
           submission |-> [submitted |-> <<"1", "9">>,
                           organization |-> [name |-> <<"U">>]],
           project_type |-> [method |-> <<"s", "e", "q">>]],
          fields)

\* the shapes of an input: how many biosamples, experiments and runs it has
Shapes ==
    {sh \in (0..MaxEntities) \X (0..MaxEntities) \X (0..MaxEntities) :
        sh[1] + sh[2] + sh[3] <= MaxEntities}

\* the raw inputs with a project of PS, biosamples of SS, experiments of ES
\* and runs given by the (experiment_ref, nfiles) choices of RS
RawInputs(PS, SS, ES, RS) ==
    UNION {
        {[bioproject |-> p, biosamples |-> ss, studies |-> <<RawStudy>>,
          experiments |-> es,
          runs |-> [k \in 1..sh[3] |-> RawRun(k, rs[k][1], rs[k][2])]] :
            p \in PS, ss \in [1..sh[1] -> SS], es \in [1..sh[2] -> ES],
            rs \in [1..sh[3] -> RS]} : sh \in Shapes}

\* inputs of the PEP round trip: accessions that differ only in case and
\* '-' / '_', attributes that do and do not collide with the row's columns
PepAttributeChoices ==
    {EmptyDict,
     [foo |-> <<"v">>, sex |-> <<"f">>],
     [tissue |-> <<"x">>, title |-> <<"z">>, foo |-> EmptyStr,
      sample_accession |-> <<"q">>]}

PepInputs ==
    RawInputs({RawProject([accession |-> <<"P", "-", "1">>, title |-> <<"P", "T">>])},
              {RawSample(<<"S", "-", "1">>, at) : at \in PepAttributeChoices}
                  \cup {RawSample(<<"s", "_", "1">>, EmptyDict)},
              {RawExperiment(a, r, <<"I", "L">>, <<"H", "i">>) :
                  a \in {<<"E", "1">>, <<"E", "2">>},
                  r \in {<<"S", "-", "1">>, <<"s", "_", "1">>}},
              ({<<"E", "1">>} \X (0..MaxFiles)) \cup {<<<<"E", "2">>, 1>>})

(***************************************************************************)
(* The driver: from_json, then an export and, for the PEP, its re-ingest.  *)
(***************************************************************************)
NoLocals == [step |-> "idle"]

\* no remote call is made by the adapters
NoCall == [function |-> "none"]

InitWith(inputs) ==
    /\ data \in inputs
    /\ pc = "start"
    /\ model = None
    /\ pep_dir = EmptyDict
    /\ reloaded = None
    /\ pep_rows = <<>>
    /\ crate = <<>>
    /\ rc = NoLocals
    /\ call = NoCall

\* model = GenomicData.from_json(data)
FromJson ==
    /\ pc = "start"
    /\ model' = from_json(data)
    /\ pc' = "ingested"
    /\ UNCHANGED <<data, pep_dir, reloaded, pep_rows, crate, rc, call>>

\* model.to_pep(output_dir)
ToPep ==
    /\ pc = "ingested"
    /\ pep_dir' = to_pep(model, pep_dir)
    /\ pep_rows' = subsamples_data(model)
    /\ pc' = "exported"
    /\ UNCHANGED <<data, model, reloaded, crate, rc, call>>

\* reloaded = GenomicData.from_pep(output_dir / "project_config.yaml")
FromPep ==
    /\ pc = "exported"
    /\ reloaded' = from_pep(pep_dir)
    /\ pc' = "reloaded"
    /\ UNCHANGED <<data, model, pep_dir, pep_rows, crate, rc, call>>

InitPep == InitWith(PepInputs)

NextPep == FromJson \/ ToPep \/ FromPep

SpecPep == InitPep /\ [][NextPep]_vars

\* inputs of the accession fallback: records whose accession or title is
\* missing or empty
Absent == <<"<absent>">>

\* the dict d without the keys marked Absent
Present(d) ==
    [k \in {x \in DOMAIN d : ~(x \in {"accession", "title"} /\ d[x] = Absent)} |-> d[k]]

AccessionTitle(choices, rest) ==
    {Present(Merge(rest, [accession |-> c[1], title |-> c[2]])) : c \in choices}

IngestInputs ==
    UNION {
        {[bioproject |-> p, biosamples |-> ss, studies |-> <<RawStudy>>,
          experiments |-> es, runs |-> rs] :
            p \in AccessionTitle({<<Absent, <<"P", "T">>>>, <<EmptyStr, <<"P", "T">>>>,
                                  <<<<"P", "1">>, <<"P", "T">>>>, <<Absent, Absent>>},
                                 RawProject(EmptyDict)),
            ss \in [1..sh[1] ->
                      AccessionTitle({<<Absent, Absent>>, <<Absent, <<"T", "1">>>>,
                                      <<EmptyStr, <<"T", "1">>>>,
                                      <<<<"S", "1">>, <<"T", "1">>>>,
                                      <<<<"S", "1">>, Absent>>, <<Absent, EmptyStr>>},
                                     RawSample(Absent, EmptyDict))],
            es \in [1..sh[2] ->
                      AccessionTitle({<<Absent, <<"E", "T">>>>,
                                      <<<<"E", "1">>, <<"E", "T">>>>,
                                      <<EmptyStr, Absent>>},
                                     RawExperiment(Absent, <<"S", "1">>, <<"I", "L">>,
                                                   <<"H", "i">>))],
            rs \in [1..sh[3] ->
                      AccessionTitle({<<Absent, <<"R", "T">>>>,
                                      <<<<"R", "1">>, <<"R", "T">>>>,
                                      <<<<"R", "1">>, Absent>>},
                                     RawRun(1, <<"E", "1">>, 1))]} : sh \in Shapes}

InitIngest == InitWith(IngestInputs)

NextIngest == FromJson

SpecIngest == InitIngest /\ [][NextIngest]_vars


(***************************************************************************)
(* to_rocrate, one action per loop iteration.                              *)
(***************************************************************************)
\* up to the first loop: the root crate is generated and read back
RcStart ==
    /\ pc = "ingested"
    /\ pc' = "to_rocrate"
    /\ crate' = RootCrate(model.project, MintGuid(1))
    /\ rc' = [step |-> Position(model, "samples", 1).step,
              i |-> Position(model, "samples", 1).i,
              minted |-> 1,
              id_mapping |-> EmptyDict,
              cell_line_entities |-> <<>>,
              cell_line_files |-> {},
              lookups |-> <<>>,
              sample_guids |-> <<>>,
              instrument_software_guids |-> EmptyDict,
              experiment_objects |-> <<>>,
              experiment_guids |-> EmptyDict,
              root_id |-> None]
    /\ UNCHANGED <<data, model, pep_dir, reloaded, pep_rows, call>>

\* for sample in self.samples.items: one iteration; the lookup is called only
\* for a non-empty cell line, and what it does is the environment's choice
RcSample ==
    /\ pc = "to_rocrate"
    /\ rc.step = "samples"
    /\ LET sample == model.samples[rc.i]
           cell_line == SampleCellLine(sample)
       IN  \E outcome \in (IF Truthy(cell_line) THEN LookupOutcomes
                           ELSE {"not_called"}) :
              LET cell_line_entity == LookedUp(outcome, cell_line)
                  guid == MintGuid(rc.minted + 1)
                  next == Position(model, "samples", rc.i + 1)
              IN  /\ crate' = Append(crate, SampleNode(sample, cell_line_entity, guid))
                  /\ rc' = [rc EXCEPT
                        !.step = next.step,
                        !.i = next.i,
                        !.minted = @ + 1,
                        !.id_mapping = Put(@, sample.accession, guid),
                        !.sample_guids = Append(@, guid),
                        !.lookups = Append(@, outcome),
                        !.cell_line_entities =
                            IF cell_line_entity # NoEntity
                            THEN OdPut(@, cell_line, cell_line_entity) ELSE @,
                        !.cell_line_files =
                            IF cell_line_entity # NoEntity
                            THEN @ \cup {CellLineFile(cell_line)} ELSE @]
    /\ UNCHANGED <<pc, data, model, pep_dir, reloaded, pep_rows, call>>

\* for experiment in self.experiments.items: one iteration
RcExperiment ==
    /\ pc = "to_rocrate"
    /\ rc.step = "experiments"
    /\ LET experiment == model.experiments[rc.i]
           instrument_key == InstrumentKey(experiment)
           fresh == instrument_key \notin DOMAIN rc.instrument_software_guids
           instrument_software_guid ==
               IF fresh THEN MintGuid(rc.minted + 1)
               ELSE rc.instrument_software_guids[instrument_key]
           minted == IF fresh THEN rc.minted + 1 ELSE rc.minted
           guid == MintGuid(minted + 1)
           experiment_instance ==
               ExperimentNode(experiment, rc.i, rc.id_mapping,
                              instrument_software_guid, guid)
           next == Position(model, "experiments", rc.i + 1)
       IN  /\ crate' = IF fresh
                       THEN Append(crate,
                                   InstrumentNode(experiment, instrument_software_guid))
                       ELSE crate
           /\ rc' = [rc EXCEPT
                 !.step = next.step,
                 !.i = next.i,
                 !.minted = minted + 1,
                 !.instrument_software_guids =
                     Put(@, instrument_key, instrument_software_guid),
                 !.id_mapping = Put(@, experiment.accession, guid),
                 !.experiment_guids = Put(@, experiment.accession, guid),
                 !.experiment_objects =
                     OdPut(@, experiment.accession, experiment_instance)]
    /\ UNCHANGED <<pc, data, model, pep_dir, reloaded, pep_rows, call>>

\* for output in self.outputs.items: one iteration
RcOutput ==
    /\ pc = "to_rocrate"
    /\ rc.step = "outputs"
    /\ LET output == model.outputs[rc.i]
           guid == MintGuid(rc.minted + 1)
           run_dataset == DatasetNode(output, rc.experiment_guids, guid)
           next == Position(model, "outputs", rc.i + 1)
       IN  /\ crate' = Append(crate, run_dataset)
           /\ rc' = [rc EXCEPT
                 !.step = next.step,
                 !.i = next.i,
                 !.minted = @ + 1,
                 !.id_mapping = Put(@, output.accession, guid),
                 !.experiment_objects =
                     IF output.experiment_ref \in DOMAIN rc.experiment_guids
                     THEN WithGenerated(@, output.experiment_ref, guid)
                     ELSE @]
    /\ UNCHANGED <<pc, data, model, pep_dir, reloaded, pep_rows, call>>

\* after the loops: the bulk append of the experiment objects, the merge of
\* the cell-line entities, and the root id read back from graph index 1
RcFinish ==
    /\ pc = "to_rocrate"
    /\ rc.step = "finish"
    /\ LET appended == crate \o OdValues(rc.experiment_objects)
           graph == IF rc.cell_line_entities # <<>>
                    THEN MergeEntities(appended, OdValues(rc.cell_line_entities))
                    ELSE appended
       IN  /\ crate' = graph
           /\ rc' = [rc EXCEPT !.step = "done", !.root_id = graph[2].id]
    /\ pc' = "crated"
    /\ UNCHANGED <<data, model, pep_dir, reloaded, pep_rows, call>>

\* inputs of the RO-Crate export: a sample that shares its accession with an
\* experiment, experiments that name an experiment as their sample, platform
\* and model names that contain the '_' of the instrument key
CrateAttributeChoices ==
    {EmptyDict, [cell_line |-> <<"H", "e">>, foo |-> <<"v">>]}

InstrumentA == <<<<"A", "_", "B">>, <<"C">>>>
InstrumentB == <<<<"A">>, <<"B", "_", "C">>>>
InstrumentC == <<<<"A">>, <<"C">>>>

CrateInputs ==
    RawInputs({RawProject([accession |-> <<"P", "1">>, title |-> <<"P", "T">>,
                           organism_name |-> <<"H", "s">>])},
              {RawSample(<<"S", "1">>, at) : at \in CrateAttributeChoices}
                  \cup {RawSample(<<"E", "1">>, EmptyDict)},
              {RawExperiment(<<"E", "1">>, <<"S", "1">>, p[1], p[2]) :
                    p \in {InstrumentA, InstrumentB, InstrumentC}}
                  \cup {RawExperiment(<<"E", "2">>, r, InstrumentA[1], InstrumentA[2]) :
                           r \in {<<"S", "1">>, <<"E", "1">>}}
                  \cup {RawExperiment(<<"E", "3">>, <<"S", "1">>,
                                      InstrumentB[1], InstrumentB[2])},
              {<<<<"E", "1">>, 0>>, <<<<"E", "1">>, 1>>, <<<<"E", "2">>, 1>>})

InitCrate == InitWith(CrateInputs)

NextCrate == FromJson \/ RcStart \/ RcSample \/ RcExperiment \/ RcOutput \/ RcFinish

SpecCrate == InitCrate /\ [][NextCrate]_vars

(***************************************************************************)
(* Claims about the PEP round trip, checked under SpecPep.                 *)
(***************************************************************************)
Range(f) == {f[x] : x \in DOMAIN f}

\* C1: after from_json, to_pep into an empty directory and from_pep, the
\* re-ingested model has the project accession of the exported model and the
\* same sequence of Sample accessions.
C1_RoundTripKeepsJoinKeys ==
    pc = "reloaded" =>
        /\ reloaded.project.accession = model.project.accession
        /\ SampleAccessions(reloaded.samples) = SampleAccessions(model.samples)

\* C1 witness: a round trip of two samples whose accessions differ only by
\* case and '-'/'_', one of them carrying a sample_accession attribute.
C1_Witness ==
    /\ pc = "reloaded"
    /\ Len(model.samples) = 2
    /\ model.samples[1].accession # model.samples[2].accession
    /\ SampleName(model.samples[1].accession) = SampleName(model.samples[2].accession)
    /\ \E i \in 1..2 : "sample_accession" \in DOMAIN model.samples[i].attributes

\* C2 (as claimed): every Experiment of the exported model whose sample_ref
\* is the accession of one of its Samples comes back from the round trip as
\* an Experiment with the same accession and the same sample_ref.
C2_RoundTripKeepsExperimentLinks ==
    pc = "reloaded" =>
        \A e \in Range(model.experiments) :
            (\E s \in Range(model.samples) : s.accession = e.sample_ref) =>
                \E e2 \in Range(reloaded.experiments) :
                    /\ e2.accession = e.accession
                    /\ e2.sample_ref = e.sample_ref

\* the columns SubsampleRow sets for every row, whatever the output's files
SubsampleNamedColumns ==
    {"sample_name", "subsample_name", "srr", "srx", "total_spots", "total_bases",
     "size", "published", "nreads", "nspots", "a_count", "c_count", "g_count",
     "t_count", "n_count", "read_type", "data_source", "library_name",
     "library_strategy", "library_source", "library_selection", "library_layout",
     "nominal_length", "instrument_model", "platform_type", "experiment_title"}

\* the file-related columns of a subsamples row
FileColumnsOfRow(row) == (DOMAIN row) \ SubsampleNamedColumns

\* the names file_i, file_i_md5, file_i_size, file_i_date for i = 1..n
FileColumnNames(n) == {FileCol(i, sfx) : i \in 1..n, sfx \in FileSuffixes}

\* the Output a subsamples row was built from (run accessions are distinct)
OutputOfRow(row) == CHOOSE o \in Range(model.outputs) : o.accession = row["srr"]

\* the i-th column group of a row holds url, md5, size, date of the i-th file
HoldsFiles(row, files) ==
    \A i \in 1..Len(files) : \A sfx \in FileSuffixes :
        /\ FileCol(i, sfx) \in DOMAIN row
        /\ row[FileCol(i, sfx)] = FileField(files[i], sfx)

SubsamplesFile == model.project.accession \o SubsamplesSuffix

SubsamplesCsvRows ==
    IF SubsamplesFile \in DOMAIN pep_dir THEN pep_dir[SubsamplesFile].rows ELSE <<>>

NamedSampleColumns ==
    {"sample_name", "protocol", "organism", "sample_title", "sample_accession",
     "sample_status", "sample_submission_date", "sample_last_update_date",
     "sample_type", "sample_channel_count", "sample_source_name_ch1",
     "sample_organism_ch1", "sample_taxid_ch1", "sample_contact_institute",
     "sample_series_id", "gsm_id", "sex", "tissue", "celltype", "treatment",
     "biosample"}

\* attribute k of the i-th sample comes back from the round trip with value v
AttributeSurvives(i, k, v) ==
    /\ i <= Len(reloaded.samples)
    /\ reloaded.samples[i].accession = model.samples[i].accession
    /\ k \in DOMAIN reloaded.samples[i].attributes
    /\ reloaded.samples[i].attributes[k] = v

\* C8 (as claimed): every entry (k, v) of every Sample's attributes is an
\* entry of the attributes of the same Sample after the round trip.
C8_AllAttributesSurviveRoundTrip ==
    pc = "reloaded" =>
        \A i \in 1..Len(model.samples) :
            \A k \in DOMAIN model.samples[i].attributes :
                AttributeSurvives(i, k, model.samples[i].attributes[k])

\* C8 (amended): every entry (k, v) of a Sample's attributes with a non-empty
\* v, whose key k is neither a column the samples row already sets (other
\* than sex, which the row copies from the attribute) nor one of the columns
\* from_pep stores outside attributes, is an entry of the attributes of the
\* same Sample after the round trip.
C8_UnknownAttributesSurviveRoundTrip ==
    pc = "reloaded" =>
        \A i \in 1..Len(model.samples) :
            \A k \in DOMAIN model.samples[i].attributes :
                (/\ Truthy(model.samples[i].attributes[k])
                 /\ k \notin PepSkipKeys
                 /\ k \notin NamedSampleColumns \ {"sex"})
                    => AttributeSurvives(i, k, model.samples[i].attributes[k])

\* C8 witness: a round trip of two samples, the first with the unknown
\* attribute foo and the attribute sex, the second without attributes.
C8_Witness ==
    /\ pc = "reloaded"
    /\ Len(model.samples) = 2
    /\ {"foo", "sex"} \subseteq DOMAIN model.samples[1].attributes
    /\ Truthy(model.samples[1].attributes["foo"])
    /\ model.samples[2].attributes = EmptyDict
    /\ reloaded.samples[1].attributes["foo"] = model.samples[1].attributes["foo"]

(***************************************************************************)
(* Claims about the RO-Crate export, checked under SpecCrate.  In the      *)
(* graph, crate[1] is the metadata descriptor, crate[2] the root, and      *)
(* crate[i + 2] the node of model.samples[i].                              *)
(***************************************************************************)
ExperimentNodeIndices == {k \in DOMAIN crate : crate[k].type = "Experiment"}

CrateSampleAccessions == {model.samples[i].accession : i \in DOMAIN model.samples}

\* C3: every Experiment node emitted by to_rocrate has usedSample empty or
\* holding exactly the id of the Sample node created for the Sample whose
\* accession equals the Experiment's sample_ref, never the id of another node.
C3_UsedSampleIsTheReferencedSampleNode ==
    pc = "crated" =>
        \A k \in ExperimentNodeIndices :
            LET sample_ref == model.experiments[crate[k].src].sample_ref
            IN  \/ crate[k].usedSample = <<>>
                \/ \E i \in DOMAIN model.samples :
                      /\ model.samples[i].accession = sample_ref
                      /\ crate[i + 2].type = "Sample"
                      /\ crate[k].usedSample = <<crate[i + 2].id>>

\* the (platform_type, instrument_model) pair of model.experiments[i]
InstrumentPair(i) ==
    <<model.experiments[i].platform_type, model.experiments[i].instrument_model>>

\* the Instrument nodes of the graph that describe the pair
InstrumentNodesFor(pair) ==
    {k \in DOMAIN crate : /\ crate[k].type = "Instrument"
                          /\ crate[k].manufacturer = pair[1]
                          /\ crate[k].model = pair[2]}

\* C4: for any two Experiments with identical (platform_type,
\* instrument_model), the graph holds exactly one Instrument node for that
\* pair and both Experiment nodes list that node's id in usedInstrument.
C4_OneInstrumentNodePerPair ==
    pc = "crated" =>
        \A k1, k2 \in ExperimentNodeIndices :
            (/\ crate[k1].src # crate[k2].src
             /\ InstrumentPair(crate[k1].src) = InstrumentPair(crate[k2].src))
            => /\ Cardinality(InstrumentNodesFor(InstrumentPair(crate[k1].src))) = 1
               /\ \A k \in InstrumentNodesFor(InstrumentPair(crate[k1].src)) :
                     /\ crate[k1].usedInstrument = <<crate[k].id>>
                     /\ crate[k2].usedInstrument = <<crate[k].id>>

\* the fixed properties every Sample node carries
FixedSampleProperties(sample) ==
    {<<"accession", sample.accession>>,
     <<"scientific_name", sample.scientific_name>>,
     <<"taxon_id", sample.taxon_id>>}

\* C7: a Sample that carries a cell-line attribute and whose lookup returned
\* an entity with @id X is exported as a node with cellLineReference.@id = X,
\* an empty attributes mapping and none of its free attributes as a property.
C7_EnrichedSampleDropsAttributes ==
    pc \in {"to_rocrate", "crated"} =>
        \A i \in DOMAIN rc.lookups :
            rc.lookups[i] = "found" =>
                LET sample == model.samples[i]
                    node == crate[i + 2]
                    entity == OdGet(rc.cell_line_entities, SampleCellLine(sample), NoEntity)
                IN  /\ node.type = "Sample"
                    /\ node.accession = sample.accession
                    /\ "cellLineReference" \in DOMAIN node
                    /\ node.cellLineReference.id = entity.id
                    /\ node.attributes = EmptyDict
                    /\ BagToSet(node.additionalProperty) = FixedSampleProperties(sample)

C7_Witness ==
    /\ pc = "crated"
    /\ \E i \in DOMAIN rc.lookups :
          /\ rc.lookups[i] = "found"
          /\ "foo" \in DOMAIN model.samples[i].attributes
          /\ Truthy(SampleCellLine(model.samples[i]))
          /\ crate[i + 2].cellLineReference.id
                = CellosaurusPrefix \o SampleCellLine(model.samples[i])
          /\ \E k \in DOMAIN crate : crate[k].type = "CellLine"

\* the output a Dataset node was built from: the Dataset nodes are appended
\* in collection order
OutputOfNode(k) ==
    model.outputs[Cardinality({x \in 1..k : crate[x].type = "Dataset"})]

\* C10: an Experiment whose sample_ref matches no Sample accession, or an
\* Output whose experiment_ref matches no Experiment accession, is exported
\* by to_rocrate with an empty reference field.
C10_UnresolvedReferenceIsEmittedEmpty ==
    pc = "crated" =>
        \A k \in DOMAIN crate :
            /\ (/\ crate[k].type = "Experiment"
                /\ model.experiments[crate[k].src].sample_ref \notin CrateSampleAccessions)
               => crate[k].usedSample = <<>>
            /\ (/\ crate[k].type = "Dataset"
                /\ \A j \in DOMAIN model.experiments :
                      model.experiments[j].accession # OutputOfNode(k).experiment_ref)
               => crate[k].generatedBy \in {<<>>, <<EmptyStr>>}

(***************************************************************************)
(* Claims about from_json alone, checked under SpecIngest.                 *)
(***************************************************************************)
\* a source record with no accession (missing or empty) but with a title
TitleOnly(record) ==
    /\ ~Truthy(Get(record, "accession", None))
    /\ Truthy(Get(record, "title", None))

\* C6: for each Project, Sample, Experiment and Output source record that
\* has no accession but has a title, the entity built by from_json has
\* accession equal to that title.
C6_AccessionFallsBackToTitle ==
    pc = "ingested" =>
        /\ TitleOnly(data.bioproject) => model.project.accession = data.bioproject.title
        /\ \A i \in DOMAIN data.biosamples :
              TitleOnly(data.biosamples[i])
              => model.samples[i].accession = data.biosamples[i].title
        /\ \A i \in DOMAIN data.experiments :
              TitleOnly(data.experiments[i])
              => model.experiments[i].accession = data.experiments[i].title
        /\ \A i \in DOMAIN data.runs :
              TitleOnly(data.runs[i])
              => model.outputs[i].accession = data.runs[i].title

C6_Witness ==
    /\ pc = "ingested"
    /\ TitleOnly(data.bioproject)
    /\ model.project.accession = <<"P", "T">>
    /\ \E i \in DOMAIN data.biosamples :
          /\ "accession" \notin DOMAIN data.biosamples[i]
          /\ model.samples[i].accession = <<"T", "1">>
    /\ \E i \in DOMAIN data.biosamples :
          /\ "accession" \in DOMAIN data.biosamples[i]
          /\ TitleOnly(data.biosamples[i])
    /\ \E i \in DOMAIN data.experiments :
          TitleOnly(data.experiments[i]) /\ model.experiments[i].accession = <<"E", "T">>
    /\ \E i \in DOMAIN data.runs :
          TitleOnly(data.runs[i]) /\ model.outputs[i].accession = <<"R", "T">>

\* C9: in the GenomicData built by from_json no two Sample entries share an
\* accession.
C9_SampleAccessionsAreUnique ==
    pc = "ingested" =>
        \A i, j \in DOMAIN model.samples :
            i # j => model.samples[i].accession # model.samples[j].accession

(***************************************************************************)
(* The remote API calls of the connectors and scripts.  A response is the  *)
(* server's answer: requests raising (no answer), or a status code with a  *)
(* body that is a JSON object or not JSON at all.  A call ends by          *)
(* returning a value, raising an exception, or exiting the process.        *)
(***************************************************************************)
\* the "data" member of a successful answer, with the members the callers read
Payload ==
    [files |-> <<[dataFile |-> [id |-> "7"]]>>,
     persistentId |-> "doi:10.1/A",
     id |-> "10.1/b"]

NotJson == [not_json |-> TRUE]

Bodies ==
    {[data |-> Payload],
     [status |-> "OK", data |-> Payload],
     [status |-> "ERROR", message |-> "m"],
     [status |-> "ERROR", data |-> Payload],
     NotJson}

StatusCodes == {200, 201, 204, 404, 500}

Responses ==
    {[raises |-> TRUE]}
        \cup {[raises |-> FALSE, status_code |-> c, body |-> b] :
                 c \in StatusCodes, b \in Bodies}

\* the call has not ended yet
Pending == [kind |-> "pending"]

Returned(value) == [kind |-> "returned", value |-> value]

Raised(exception) == [kind |-> "raised", exception |-> exception]

Exited(code) == [kind |-> "exited", code |-> ToString(code)]

\* requests.get / requests.post followed by the caller's code `then`, given
\* as the outcome for an answered request: requests raising propagates
Requested(response, then) ==
    IF response.raises THEN Raised("RequestException") ELSE then

\* response.json() followed by `then`: a body that is not JSON raises
Json(response, then) ==
    IF response.body = NotJson THEN Raised("JSONDecodeError") ELSE then

\* "status" in data and data["status"] == "ERROR"
IsApiError(body) == "status" \in DOMAIN body /\ body.status = "ERROR"

\* DataverseConnector.fetch_dataset and DataverseConnector.fetch_files
dataverse_fetch(response, default) ==
    Requested(response,
        IF response.status_code # 200 THEN Raised("ValueError")
        ELSE Json(response,
                IF IsApiError(response.body) THEN Raised("ValueError")
                ELSE Returned(Get(response.body, "data", default))))

fetch_dataset(response) == dataverse_fetch(response, EmptyDict)

dataverse_fetch_files(response) == dataverse_fetch(response, <<>>)

\* FigshareConnector.fetch_article and FigshareConnector.fetch_files
fetch_article(response) ==
    Requested(response,
        IF response.status_code # 200 THEN Raised("ValueError")
        ELSE Json(response, Returned(response.body)))

figshare_fetch_files(response) == fetch_article(response)

\* fetch_massive_data
fetch_massive_data(response) ==
    Requested(response,
        IF response.status_code # 200 THEN Raised("ValueError")
        ELSE Json(response, Returned(response.body)))

\* an exception raised inside `try: ... except Exception: return None`
CaughtReturnsNone(outcome) ==
    IF outcome.kind = "raised" THEN Returned(None) ELSE outcome

\* upload_file_to_dataverse
upload_file_to_dataverse(response) ==
    CaughtReturnsNone(
        Requested(response,
            IF response.status_code = 200
            THEN Json(response,
                    IF "data" \in DOMAIN response.body
                    THEN Returned(response.body.data.files[1].dataFile.id)
                    ELSE Raised("KeyError"))
            ELSE Returned(None)))

\* an exception raised inside `try: ... except Exception: sys.exit(1)`;
\* the SystemExit of sys.exit is no Exception and passes through
CaughtExits(outcome) ==
    IF outcome.kind = "raised" THEN Exited(1) ELSE outcome

\* create_dataverse_dataset, from the request on
create_dataverse_dataset(response) ==
    CaughtExits(
        Requested(response,
            IF response.status_code = 201
            THEN Json(response,
                    IF "data" \in DOMAIN response.body
                    THEN Returned(response.body.data.persistentId)
                    ELSE Raised("KeyError"))
            ELSE Exited(1)))

\* create_datacite_doi, from the request on
create_datacite_doi(response) ==
    Requested(response,
        IF response.status_code \in {200, 201}
        THEN Json(response,
                IF "data" \in DOMAIN response.body
                THEN Returned(response.body.data.id)
                ELSE Raised("KeyError"))
        ELSE Exited(1))

RemoteFunctions ==
    {"DataverseConnector.fetch_dataset", "DataverseConnector.fetch_files",
     "FigshareConnector.fetch_article", "FigshareConnector.fetch_files",
     "fetch_massive_data", "upload_file_to_dataverse",
     "create_dataverse_dataset", "create_datacite_doi"}

\* the call of `function` is answered and ends with `outcome`
Ends(function, outcome) ==
    /\ call.function = function
    /\ call.outcome = Pending
    /\ call' = [call EXCEPT !.outcome = outcome]
    /\ UNCHANGED <<pc, data, model, pep_dir, reloaded, pep_rows, crate, rc>>

DataverseFetchDataset ==
    Ends("DataverseConnector.fetch_dataset", fetch_dataset(call.response))

DataverseFetchFiles ==
    Ends("DataverseConnector.fetch_files", dataverse_fetch_files(call.response))

FigshareFetchArticle ==
    Ends("FigshareConnector.fetch_article", fetch_article(call.response))

FigshareFetchFiles ==
    Ends("FigshareConnector.fetch_files", figshare_fetch_files(call.response))

FetchMassiveData == Ends("fetch_massive_data", fetch_massive_data(call.response))

UploadFileToDataverse ==
    Ends("upload_file_to_dataverse", upload_file_to_dataverse(call.response))

CreateDataverseDataset ==
    Ends("create_dataverse_dataset", create_dataverse_dataset(call.response))

CreateDataciteDoi == Ends("create_datacite_doi", create_datacite_doi(call.response))

InitRemote ==
    /\ call \in [function : RemoteFunctions, response : Responses,
                 outcome : {Pending}]
    /\ pc = "start"
    /\ data = EmptyDict
    /\ model = None
    /\ pep_dir = EmptyDict
    /\ reloaded = None
    /\ pep_rows = <<>>
    /\ crate = <<>>
    /\ rc = NoLocals

NextRemote ==
    \/ DataverseFetchDataset
    \/ DataverseFetchFiles
    \/ FigshareFetchArticle
    \/ FigshareFetchFiles
    \/ FetchMassiveData
    \/ UploadFileToDataverse
    \/ CreateDataverseDataset
    \/ CreateDataciteDoi

SpecRemote == InitRemote /\ [][NextRemote]_vars

\* C11: a remote API call returns normally only on HTTP 200/201 with no
\* "status": "ERROR" in the JSON body; on any other response it raises or
\* exits the process.
C11_ReturnsOnlyOnSuccess ==
    (call.function # "none" /\ call.outcome.kind = "returned") =>
        /\ ~call.response.raises
        /\ call.response.status_code \in {200, 201}
        /\ call.response.body # NotJson
        /\ ~IsApiError(call.response.body)

(***************************************************************************)
(* Both exports of one ingested model: to_pep, or to_rocrate step by step. *)
(***************************************************************************)
InitExport == InitWith(CrateInputs)

NextExport == NextCrate \/ ToPep

SpecExport == InitExport /\ [][NextExport]_vars

\* the experiment objects held by to_rocrate differ from the ones before
\* the step in their generated lists only
OnlyGeneratedChanges ==
    LET old == rc.experiment_objects
        new == rc'.experiment_objects
    IN  /\ Len(new) = Len(old)
        /\ \A j \in DOMAIN old :
              /\ new[j].key = old[j].key
              /\ [new[j].value EXCEPT !.generated = old[j].value.generated]
                    = old[j].value

SampleNodeIndices == {k \in DOMAIN crate : crate[k].type = "Sample"}

\* C13: every execution of the Sample append step adds one Sample node with
\* an id of its own, also for a Sample whose accession was appended before,
\* so the graph holds as many Sample nodes as Sample entries were processed.
C13_SampleAppendIsNotIdempotent ==
    pc \in {"to_rocrate", "crated"} =>
        /\ Cardinality(SampleNodeIndices) = Len(rc.sample_guids)
        /\ pc = "crated" => Cardinality(SampleNodeIndices) = Len(model.samples)
        /\ \A k1, k2 \in SampleNodeIndices : k1 # k2 => crate[k1].id # crate[k2].id
        /\ \A i \in DOMAIN rc.sample_guids : crate[i + 2].id = rc.sample_guids[i]

C13_Witness ==
    /\ pc = "crated"
    /\ Len(model.samples) >= 2
    /\ model.samples[1] = model.samples[2]
    /\ crate[3].type = "Sample" /\ crate[4].type = "Sample"
    /\ crate[3].accession = crate[4].accession
    /\ crate[3].id # crate[4].id

(***************************************************************************)
(* The join of to_pep, checked under SpecPep.                              *)
(***************************************************************************)
\* the triples (sample, experiment, output), as indices into the
\* collections, whose references resolve
JoinTriples ==
    {t \in (DOMAIN model.samples) \X (DOMAIN model.experiments) \X (DOMAIN model.outputs) :
        /\ model.experiments[t[2]].sample_ref = model.samples[t[1]].accession
        /\ model.outputs[t[3]].experiment_ref = model.experiments[t[2]].accession}

\* u comes before t by sample, then experiment, then output
JoinBefore(u, t) ==
    \/ u[1] < t[1]
    \/ u[1] = t[1] /\ u[2] < t[2]
    \/ u[1] = t[1] /\ u[2] = t[2] /\ u[3] < t[3]

\* the place of the triple's row in the table
JoinRank(t) == Cardinality({u \in JoinTriples : JoinBefore(u, t)}) + 1

DatasetNodeIndices == {k \in DOMAIN crate : crate[k].type = "Dataset"}

\* C15: no Experiment node is appended to the crate before every Output's
\* Dataset node has been appended; the Experiment nodes are then appended in
\* one bulk append, and an appended Experiment node is never modified.
C15_TwoPassOrdering ==
    [][/\ pc' = "to_rocrate" => ExperimentNodeIndices' = {}
       /\ (ExperimentNodeIndices = {} /\ ExperimentNodeIndices' # {})
             => /\ rc.step = "finish"
                /\ Cardinality(DatasetNodeIndices) = Len(model.outputs)
                /\ Cardinality(ExperimentNodeIndices') = Len(rc.experiment_objects)
                /\ SubSeq(crate', Len(crate) + 1,
                          Len(crate) + Len(rc.experiment_objects))
                      = OdValues(rc.experiment_objects)
       /\ \A k \in ExperimentNodeIndices : crate'[k] = crate[k]]_vars

C15_Witness ==
    /\ pc = "crated"
    /\ Cardinality(ExperimentNodeIndices) >= 2
    /\ \E k1 \in DatasetNodeIndices :
          \E k2 \in ExperimentNodeIndices :
             k1 < k2 /\ crate[k2].generated = <<[id |-> crate[k1].id]>>

\* how often the Experiment node at j lists the Dataset node at k as generated
BackEdges(j, k) ==
    Cardinality({x \in DOMAIN crate[j].generated :
                    crate[j].generated[x] = [id |-> crate[k].id]})

\* C16: for every Output whose experiment_ref is the accession of an
\* Experiment, the Dataset node's generatedBy is that Experiment node's id
\* and that node lists the Dataset exactly once in generated; for every other
\* Output generatedBy is the empty string and no Experiment node lists it.
C16_ForwardAndBackEdgesAgree ==
    pc = "crated" =>
        \A k \in DatasetNodeIndices :
            LET experiment_ref == OutputOfNode(k).experiment_ref
                named == {j \in ExperimentNodeIndices :
                             model.experiments[crate[j].src].accession = experiment_ref}
            IN  IF \E i \in DOMAIN model.experiments :
                      model.experiments[i].accession = experiment_ref
                THEN /\ Cardinality(named) = 1
                     /\ \A j \in named : /\ crate[k].generatedBy = <<crate[j].id>>
                                         /\ BackEdges(j, k) = 1
                     /\ \A j \in ExperimentNodeIndices \ named : BackEdges(j, k) = 0
                ELSE /\ crate[k].generatedBy = <<EmptyStr>>
                     /\ \A j \in ExperimentNodeIndices : BackEdges(j, k) = 0

C16_Witness ==
    /\ pc = "crated"
    /\ \E k1, k2 \in DatasetNodeIndices :
          /\ crate[k1].generatedBy = <<EmptyStr>>
          /\ \E j \in ExperimentNodeIndices :
                /\ crate[k2].generatedBy = <<crate[j].id>>
                /\ BackEdges(j, k2) = 1
                /\ BackEdges(j, k1) = 0

(***************************************************************************)
(* from_rocrate: @graph of an RO-Crate -> GenomicData.  An entity is a     *)
(* dict from key to value.  The values the code inspects with isinstance   *)
(* (of @type, keywords, usedDataset, usedSoftware, generatedBy, contentUrl *)
(* and the references they hold) carry their Python type: PyStr, PyList or *)
(* PyDict; all other values are strings.                                   *)
(***************************************************************************)
PyStr(s) == [isa |-> "str", value |-> s]

PyList(items) == [isa |-> "list", items |-> items]

PyDict(d) == [isa |-> "dict", dict |-> d]

TypedKeys ==
    {"@type", "keywords", "usedDataset", "usedSoftware", "generatedBy", "contentUrl",
     "sdPublisher", "creator"}

\* sub in s, for strings
HasSubstring(s, sub) ==
    \E i \in 0..(Len(s) - Len(sub)) : SubSeq(s, i + 1, i + Len(sub)) = sub

\* word in value, where value is a str (substring) or a list (membership)
In(word, value) ==
    IF value.isa = "str" THEN HasSubstring(value.value, word)
    ELSE IF value.isa = "list" THEN \E i \in DOMAIN value.items : value.items[i] = PyStr(word)
    ELSE word \in DOMAIN value.dict

\* ref.get('@id') if isinstance(ref, dict) else ref
RefId(ref) ==
    IF ref.isa = "dict" THEN Get(ref.dict, "@id", None) ELSE ref.value

\* the references of a usedSoftware / generatedBy value: the ids of a list's
\* items, or the single id
RefIds(value) ==
    IF value.isa = "list" THEN [i \in DOMAIN value.items |-> RefId(value.items[i])]
    ELSE <<RefId(value)>>

TypeSample == <<"S", "a", "m", "p", "l", "e">>
TypeComputation == <<"C", "o", "m", "p", "u", "t", "a", "t", "i", "o", "n">>
TypeSoftware == <<"S", "o", "f", "t", "w", "a", "r", "e">>
TypeDataset == <<"D", "a", "t", "a", "s", "e", "t">>
RootId == <<".", "/">>
ExpPrefix == <<"e", "x", "p", "-">>
RunPrefix == <<"r", "u", "n", "-">>
LowerUnknown == <<"u", "n", "k", "n", "o", "w", "n">>
SequencingWord == <<"s", "e", "q", "u", "e", "n", "c", "i", "n", "g">>
Today == <<"2", "0", "2", "6", "-", "0", "1", "-", "0", "1">>

\* the list an entity is filed under by the first loop over the graph
Partition(entity) ==
    LET entity_id == Get(entity, "@id", EmptyStr)
        entity_type == Get(entity, "@type", PyStr(EmptyStr))
    IN  IF entity_type.isa = "list" THEN "root_dataset"
        ELSE IF In(TypeSample, entity_type) THEN "samples_list"
        ELSE IF In(TypeComputation, entity_type) THEN "computations_list"
        ELSE IF In(TypeSoftware, entity_type) THEN "software_list"
        ELSE IF In(TypeDataset, entity_type) /\ entity_id # RootId THEN "datasets_list"
        ELSE "none"

\* the entities of the graph filed under the list, in graph order
Filed(graph, list) ==
    LET Test(entity) == Partition(entity) = list
    IN  SelectSeq(graph, Test)

\* entities_by_id.get(entity_id, {}): the last entity of the graph with the id
entities_by_id(graph, entity_id) ==
    LET at == {i \in DOMAIN graph : Get(graph[i], "@id", EmptyStr) = entity_id}
    IN  IF at = {} THEN EmptyDict
        ELSE graph[CHOOSE i \in at : \A j \in at : j <= i]

\* str(value): a string is itself, any other value becomes its repr
Str(key, value) == IF key \in TypedKeys THEN <<"repr">> \o <<key>> ELSE value

\* next((k for k in keywords if 'sapiens' in k or 'elegans' in k), '')
RECURSIVE OrganismKeyword(_)
OrganismKeyword(items) ==
    IF items = <<>> THEN EmptyStr
    ELSE IF \/ HasSubstring(Head(items).value, <<"s", "a", "p", "i", "e", "n", "s">>)
            \/ HasSubstring(Head(items).value, <<"e", "l", "e", "g", "a", "n", "s">>)
         THEN Head(items).value
    ELSE OrganismKeyword(Tail(items))

\* a.get(k, {}).get('name', default) if isinstance(a.get(k), dict) else default
NameOfDict(entity, key, default, otherwise) ==
    IF key \in DOMAIN entity /\ entity[key].isa = "dict"
    THEN Get(entity[key].dict, "name", default) ELSE otherwise

RocrateProject(root_dataset) ==
    [id |-> Get(root_dataset, "identifier", LowerUnknown),
     accession |-> Get(root_dataset, "identifier",
                       Get(root_dataset, "name", LowerUnknown)),
     archive |-> NameOfDict(root_dataset, "sdPublisher", Unknown, Unknown),
     organism_name |-> OrganismKeyword(Get(root_dataset, "keywords", PyList(<<>>)).items),
     title |-> Get(root_dataset, "name", EmptyStr),
     description |-> Get(root_dataset, "description", EmptyStr),
     release_date |-> Get(root_dataset, "datePublished", Today),
     submitted_date |-> Get(root_dataset, "dateCreated", Today),
     organization_role |-> Owner,
     organization_type |-> Center,
     organization_name |-> NameOfDict(root_dataset, "creator", EmptyStr, EmptyStr),
     access |-> Public]

RocrateSkipKeys ==
    {"@id", "@type", "accession", "title", "scientific_name", "taxon_id", "name",
     "description", "keywords", "author", "format", "version"}

\* accession = sample_entity.get('accession', entity_id)
RocrateSampleAccession(sample_entity) ==
    Get(sample_entity, "accession", Get(sample_entity, "@id", EmptyStr))

RocrateSample(sample_entity) ==
    [accession |-> RocrateSampleAccession(sample_entity),
     title |-> Get(sample_entity, "name", Get(sample_entity, "title", EmptyStr)),
     scientific_name |-> Get(sample_entity, "scientific_name", EmptyStr),
     taxon_id |-> Get(sample_entity, "taxon_id", EmptyStr),
     attributes |-> [key \in (DOMAIN sample_entity) \ RocrateSkipKeys |->
                        Str(key, sample_entity[key])]]

\* sample_id_to_accession: @id -> accession, a later Sample entity with the
\* same @id replacing an earlier one
RECURSIVE sample_id_to_accession(_)
sample_id_to_accession(samples_list) ==
    IF samples_list = <<>> THEN EmptyDict
    ELSE LET n == Len(samples_list)
             sample_entity == samples_list[n]
         IN  Put(sample_id_to_accession(SubSeq(samples_list, 1, n - 1)),
                 Get(sample_entity, "@id", EmptyStr),
                 RocrateSampleAccession(sample_entity))

\* s.split('-')[-1]: the part of s after its last '-'
RECURSIVE LastDashPart(_)
LastDashPart(s) ==
    IF s = <<>> THEN <<>>
    ELSE IF s[Len(s)] = "-" THEN <<>>
    ELSE LastDashPart(SubSeq(s, 1, Len(s) - 1)) \o <<s[Len(s)]>>

\* command.split()[0]: the first run of non-blank characters
RECURSIVE FirstWord(_)
FirstWord(command) ==
    IF command = <<>> THEN <<>>
    ELSE IF Head(command) = " " THEN FirstWord(Tail(command))
    ELSE SplitFirst(command, " ")

StrategyWords == {<<"R", "N", "A", "-", "S", "e", "q">>, <<"W", "G", "S">>, <<"C", "h", "I", "P", "-", "S", "e", "q">>, <<"B", "i", "s", "u", "l", "f", "i", "t", "e", "-", "S", "e", "q">>}
SourceWords == {<<"G", "E", "N", "O", "M", "I", "C">>, <<"T", "R", "A", "N", "S", "C", "R", "I", "P", "T", "O", "M", "I", "C">>, <<"M", "E", "T", "A", "G", "E", "N", "O", "M", "I", "C">>}
SelectionWords == {<<"P", "C", "R">>, <<"R", "A", "N", "D", "O", "M">>, <<"H", "y", "b", "r", "i", "d", " ", "S", "e", "l", "e", "c", "t", "i", "o", "n">>}
LayoutWords == {<<"P", "A", "I", "R", "E", "D">>, <<"S", "I", "N", "G", "L", "E">>}
PlatformWords == {<<"I", "L", "L", "U", "M", "I", "N", "A">>, <<"P", "A", "C", "B", "I", "O">>, <<"N", "A", "N", "O", "P", "O", "R", "E">>, <<"O", "X", "F", "O", "R", "D">>}

\* for keyword in keywords: each library field still empty takes the keyword
\* if the keyword is in the field's vocabulary
RECURSIVE KeywordCascade(_, _)
KeywordCascade(library, items) ==
    IF items = <<>> THEN library
    ELSE LET keyword == Head(items).value
             Take(field, words) ==
                 IF ~Truthy(library[field]) /\ keyword \in words THEN keyword
                 ELSE library[field]
         IN  KeywordCascade(
                [library_strategy |-> Take("library_strategy", StrategyWords),
                 library_source |-> Take("library_source", SourceWords),
                 library_selection |-> Take("library_selection", SelectionWords),
                 library_layout |-> Take("library_layout", LayoutWords)],
                Tail(items))

\* the library fields of a Computation: its own, and when library_strategy is
\* empty the command's first word and the keyword cascade
RocrateLibrary(computation) ==
    LET own == [library_strategy |-> Get(computation, "library_strategy", EmptyStr),
                library_source |-> Get(computation, "library_source", EmptyStr),
                library_selection |-> Get(computation, "library_selection", EmptyStr),
                library_layout |-> Get(computation, "library_layout", EmptyStr)]
        command == Get(computation, "command", EmptyStr)
        parsed == IF HasSubstring(Lower(command), SequencingWord)
                  THEN [own EXCEPT !.library_strategy = FirstWord(command)]
                  ELSE own
        keywords == Get(computation, "keywords", PyList(<<>>))
    IN  IF Truthy(own.library_strategy) THEN own
        ELSE IF keywords.isa = "list" THEN KeywordCascade(parsed, keywords.items)
        ELSE parsed

\* [k for k in keywords if k.upper() in [...]][0], or '' if there is none
RECURSIVE PlatformCandidate(_)
PlatformCandidate(items) ==
    IF items = <<>> THEN EmptyStr
    ELSE IF Upper(Head(items).value) \in PlatformWords THEN Head(items).value
    ELSE PlatformCandidate(Tail(items))

\* for software_id in used_software_ids: fill instrument_model and
\* platform_type, while empty, from the Software entities referenced
RECURSIVE RocrateInstrument(_, _, _)
RocrateInstrument(instrument, software_ids, graph) ==
    IF software_ids = <<>> THEN instrument
    ELSE LET software == entities_by_id(graph, Head(software_ids))
             keywords == Get(software, "keywords", PyList(<<>>))
             candidate == IF keywords.isa = "list" THEN PlatformCandidate(keywords.items)
                          ELSE EmptyStr
             instrument_model ==
                 IF Truthy(instrument.instrument_model) THEN instrument.instrument_model
                 ELSE IF "instrument_model" \in DOMAIN software
                      THEN software["instrument_model"]
                 ELSE IF "name" \in DOMAIN software THEN software["name"]
                 ELSE instrument.instrument_model
             platform_type ==
                 IF Truthy(instrument.platform_type) THEN instrument.platform_type
                 ELSE IF "platform_type" \in DOMAIN software
                      THEN software["platform_type"]
                 ELSE IF "keywords" \in DOMAIN software /\ Truthy(candidate)
                      THEN candidate
                 ELSE instrument.platform_type
         IN  RocrateInstrument([instrument_model |-> instrument_model,
                                platform_type |-> platform_type],
                               Tail(software_ids), graph)

\* sample_refs: for a list, the accession or None of every reference; for a
\* single reference, its accession if it names a Sample entity
sample_refs(computation, id_to_accession) ==
    IF "usedDataset" \notin DOMAIN computation THEN <<>>
    ELSE LET usedDataset == computation["usedDataset"]
         IN  IF usedDataset.isa = "list"
             THEN [i \in DOMAIN usedDataset.items |->
                      Get(id_to_accession, RefId(usedDataset.items[i]), None)]
             ELSE IF RefId(usedDataset) \in DOMAIN id_to_accession
                  THEN <<id_to_accession[RefId(usedDataset)]>>
             ELSE <<>>

\* accession = computation.get('accession', f"exp-{entity_id.split('-')[-1]}")
RocrateExperimentAccession(computation) ==
    Get(computation, "accession",
        ExpPrefix \o LastDashPart(Get(computation, "@id", EmptyStr)))

\* the keyword arguments from_rocrate passes to Experiment(...)
RocrateExperimentFields(computation, graph, sample_ref) ==
    LET library == RocrateLibrary(computation)
        own == [instrument_model |-> Get(computation, "instrument_model", EmptyStr),
                platform_type |-> Get(computation, "platform_type", EmptyStr)]
        instrument ==
            IF Truthy(own.instrument_model) /\ Truthy(own.platform_type) THEN own
            ELSE IF "usedSoftware" \in DOMAIN computation
                 THEN RocrateInstrument(own, RefIds(computation["usedSoftware"]), graph)
            ELSE own
    IN  [accession |-> RocrateExperimentAccession(computation),
         title |-> Get(computation, "name", EmptyStr),
         sample_ref |-> sample_ref,
         library_name |-> Get(computation, "library_name", EmptyStr),
         library_strategy |-> library.library_strategy,
         library_source |-> library.library_source,
         library_selection |-> library.library_selection,
         library_layout |-> library.library_layout,
         nominal_length |-> Get(computation, "nominal_length", EmptyStr),
         platform_type |-> instrument.platform_type,
         instrument_model |-> instrument.instrument_model]

\* the fields of class Experiment: all are required, none has a default
ExperimentFields ==
    {"accession", "title", "study_ref", "sample_ref", "library_name",
     "library_strategy", "library_source", "library_selection", "library_layout",
     "nominal_length", "platform_type", "instrument_model"}

ValidationError == [raised |-> "ValidationError"]

\* Experiment(**fields): pydantic refuses a call that leaves a required
\* field out
Experiment(fields) ==
    IF ExperimentFields \subseteq DOMAIN fields THEN fields ELSE ValidationError

\* the Experiment(...) calls of one Computation: one per truthy sample_ref
RocrateExperimentsOf(computation, graph, id_to_accession) ==
    LET refs == sample_refs(computation, id_to_accession)
        Kept(sample_ref) == Truthy(sample_ref)
        kept == SelectSeq(refs, Kept)
    IN  [i \in DOMAIN kept |->
            Experiment(RocrateExperimentFields(computation, graph, kept[i]))]

\* flatten a sequence of sequences, in order
RECURSIVE Concat(_)
Concat(lists) ==
    IF lists = <<>> THEN <<>> ELSE Head(lists) \o Concat(Tail(lists))

\* the Experiment(...) calls of the loop over computations_list, in order
RocrateExperiments(graph) ==
    LET computations_list == Filed(graph, "computations_list")
        id_to_accession == sample_id_to_accession(Filed(graph, "samples_list"))
    IN  Concat([c \in DOMAIN computations_list |->
                   RocrateExperimentsOf(computations_list[c], graph, id_to_accession)])

\* computation_id_to_experiment: @id of a Computation -> the last Experiment
\* made for a Computation with that @id
RECURSIVE computation_id_to_experiment(_, _, _)
computation_id_to_experiment(computations_list, graph, id_to_accession) ==
    IF computations_list = <<>> THEN EmptyDict
    ELSE LET n == Len(computations_list)
             computation == computations_list[n]
             before == computation_id_to_experiment(
                           SubSeq(computations_list, 1, n - 1), graph, id_to_accession)
             made == RocrateExperimentsOf(computation, graph, id_to_accession)
         IN  IF made = <<>> THEN before
             ELSE Put(before, Get(computation, "@id", EmptyStr), made[Len(made)])

\* experiment_ref of a Dataset entity: the accession of the Experiment of the
\* first generatedBy reference found in the map, or ''
RECURSIVE FirstExperimentRef(_, _)
FirstExperimentRef(comp_ids, id_to_experiment) ==
    IF comp_ids = <<>> THEN EmptyStr
    ELSE IF Head(comp_ids) \in DOMAIN id_to_experiment
         THEN id_to_experiment[Head(comp_ids)].accession
    ELSE FirstExperimentRef(Tail(comp_ids), id_to_experiment)

RocrateExperimentRef(dataset, id_to_experiment) ==
    IF "generatedBy" \notin DOMAIN dataset THEN EmptyStr
    ELSE FirstExperimentRef(RefIds(dataset["generatedBy"]), id_to_experiment)

\* accession = dataset.get('accession', f"run-{entity_id.split('-')[-1]}")
RocrateOutputAccession(dataset) ==
    Get(dataset, "accession",
        RunPrefix \o LastDashPart(Get(dataset, "@id", EmptyStr)))

\* content_urls: [] when missing or falsy, a single value wrapped in a list
content_urls(dataset) ==
    IF "contentUrl" \notin DOMAIN dataset THEN <<>>
    ELSE LET contentUrl == dataset["contentUrl"]
         IN  IF contentUrl.isa = "list" THEN contentUrl.items
             ELSE IF contentUrl.isa = "str" /\ ~Truthy(contentUrl.value) THEN <<>>
             ELSE <<contentUrl>>

RocrateOutputFile(dataset, url) ==
    [filename |-> IF url.isa = "str" THEN LastSegment(url.value) ELSE EmptyStr,
     size |-> Get(dataset, "size", EmptyStr),
     date |-> Get(dataset, "dateCreated", EmptyStr),
     url |-> IF url.isa = "str" THEN url.value ELSE url,
     md5 |-> Get(dataset, "md5", EmptyStr)]

RocrateOutput(dataset, experiment_ref) ==
    LET base_comp == Get(dataset, "base_composition", EmptyDict)
        urls == content_urls(dataset)
    IN  [accession |-> RocrateOutputAccession(dataset),
         title |-> Get(dataset, "name", EmptyStr),
         experiment_ref |-> experiment_ref,
         total_spots |-> Get(dataset, "total_spots", EmptyStr),
         total_bases |-> Get(dataset, "total_bases", EmptyStr),
         size |-> Get(dataset, "size", EmptyStr),
         published |-> Get(dataset, "datePublished", EmptyStr),
         files |-> [i \in DOMAIN urls |-> RocrateOutputFile(dataset, urls[i])],
         nreads |-> Get(dataset, "nreads", EmptyStr),
         nspots |-> Get(dataset, "nspots", EmptyStr),
         a_count |-> Get(base_comp, "A", EmptyStr),
         c_count |-> Get(base_comp, "C", EmptyStr),
         g_count |-> Get(base_comp, "G", EmptyStr),
         t_count |-> Get(base_comp, "T", EmptyStr),
         n_count |-> Get(base_comp, "N", EmptyStr)]

\* the Datasets the loop over datasets_list keeps: not './', not a Sample,
\* and with a truthy experiment_ref
RocrateKept(dataset, id_to_experiment) ==
    /\ Get(dataset, "@id", EmptyStr) # RootId
    /\ ~In(TypeSample, Get(dataset, "@type", PyStr(EmptyStr)))
    /\ Truthy(RocrateExperimentRef(dataset, id_to_experiment))

RocrateOutputs(graph, id_to_experiment) ==
    LET Kept(dataset) == RocrateKept(dataset, id_to_experiment)
        kept == SelectSeq(Filed(graph, "datasets_list"), Kept)
    IN  [i \in DOMAIN kept |->
            RocrateOutput(kept[i], RocrateExperimentRef(kept[i], id_to_experiment))]

AttributeError == [raised |-> "AttributeError"]

IsRaised(result) == "raised" \in DOMAIN result

\* from_rocrate(graph): the GenomicData it returns, or the exception it
\* raises: AttributeError at root_dataset.get when no entity has a list
\* @type, ValidationError at the first refused Experiment(...) call
from_rocrate(graph) ==
    LET roots == Filed(graph, "root_dataset")
        samples_list == Filed(graph, "samples_list")
        computations_list == Filed(graph, "computations_list")
        id_to_accession == sample_id_to_accession(samples_list)
        experiments == RocrateExperiments(graph)
        id_to_experiment ==
            computation_id_to_experiment(computations_list, graph, id_to_accession)
    IN  IF roots = <<>> THEN AttributeError
        ELSE IF \E i \in DOMAIN experiments : IsRaised(experiments[i])
             THEN ValidationError
        ELSE [project |-> RocrateProject(roots[Len(roots)]),
              samples |-> [i \in DOMAIN samples_list |-> RocrateSample(samples_list[i])],
              experiments |-> experiments,
              outputs |-> RocrateOutputs(graph, id_to_experiment)]

(***************************************************************************)
(* Graphs for from_rocrate: an optional root, two Samples, two             *)
(* Computations, one Software and one Dataset, with the reference shapes   *)
(* the code distinguishes (list, dict, plain id; resolvable or not).       *)
(***************************************************************************)
Ref(entity_id) == PyDict("@id" :> entity_id)

RootEntity ==
    ("@id" :> RootId) @@ ("@type" :> PyList(<<PyStr(TypeDataset)>>))
    @@ ("name" :> <<"P", "R", "J", "1">>) @@ ("keywords" :> PyList(<<PyStr(<<"H", "o", "m", "o", " ", "s", "a", "p", "i", "e", "n", "s">>)>>))

SampleEntity(entity_id, fields) ==
    ("@id" :> entity_id) @@ ("@type" :> PyStr(TypeSample)) @@ ("name" :> <<"c", "e", "l", "l", "s">>)
    @@ fields

ComputationEntity(entity_id, fields) ==
    ("@id" :> entity_id) @@ ("@type" :> PyStr(TypeComputation)) @@ ("name" :> <<"r", "u", "n">>)
    @@ ("usedSoftware" :> Ref(<<"i", "-", "1">>))
    @@ ("keywords" :> PyList(<<PyStr(<<"P", "A", "I", "R", "E", "D">>), PyStr(<<"W", "G", "S">>), PyStr(<<"G", "E", "N", "O", "M", "I", "C">>),
                               PyStr(<<"R", "N", "A", "-", "S", "e", "q">>), PyStr(<<"P", "C", "R">>)>>))
    @@ fields

SoftwareEntity ==
    ("@id" :> <<"i", "-", "1">>) @@ ("@type" :> PyStr(TypeSoftware)) @@ ("name" :> <<"N", "e", "x", "t", "S", "e", "q">>)
    @@ ("keywords" :> PyList(<<PyStr(<<"I", "l", "l", "u", "m", "i", "n", "a">>)>>))

DatasetEntity(entity_id, fields) ==
    ("@id" :> entity_id) @@ ("@type" :> PyStr(TypeDataset)) @@ ("name" :> <<"r", "e", "a", "d", "s">>)
    @@ ("contentUrl" :> PyStr(<<"f", "t", "p", ":", "/", "/", "h", "/", "r", ".", "f", "q">>)) @@ fields

AccessionChoices(accession) ==
    {EmptyDict, "accession" :> accession, "accession" :> EmptyStr}

UsedDatasetChoices ==
    {EmptyDict,
     "usedDataset" :> PyList(<<Ref(<<"s", "-", "1">>), PyStr(<<"s", "-", "2">>)>>),
     "usedDataset" :> PyList(<<PyStr(<<"s", "-", "9">>), Ref(<<"s", "-", "1">>)>>),
     "usedDataset" :> PyList(<<PyStr(<<"s", "-", "9">>)>>),
     "usedDataset" :> Ref(<<"s", "-", "1">>),
     "usedDataset" :> PyStr(<<"s", "-", "2">>),
     "usedDataset" :> PyStr(<<"s", "-", "9">>)}

LibraryChoices ==
    {EmptyDict,
     "library_strategy" :> <<"C", "h", "I", "P", "-", "S", "e", "q">>,
     ("library_strategy" :> EmptyStr) @@ ("library_layout" :> <<"S", "I", "N", "G", "L", "E">>),
     "command" :> <<"b", "w", "a", " ", "s", "e", "q", "u", "e", "n", "c", "i", "n", "g">>}

GeneratedByChoices ==
    {EmptyDict,
     "generatedBy" :> PyList(<<Ref(<<"c", "-", "9">>), Ref(<<"c", "-", "1">>)>>),
     "generatedBy" :> PyList(<<PyStr(<<"c", "-", "2">>), Ref(<<"c", "-", "1">>)>>),
     "generatedBy" :> Ref(<<"c", "-", "1">>),
     "generatedBy" :> PyStr(<<"c", "-", "1">>)}

RocrateInputs ==
    {root \o <<SampleEntity(<<"s", "-", "1">>, first), SampleEntity(<<"s", "-", "2">>, "accession" :> <<"S", "A", "M", "N", "2">>),
               ComputationEntity(<<"c", "-", "1">>, accession @@ usedDataset @@ library),
               ComputationEntity(<<"c", "-", "2">>, second),
               SoftwareEntity,
               DatasetEntity(<<"d", "-", "1">>, generatedBy)>> :
        root \in {<<>>, <<RootEntity>>},
        first \in AccessionChoices(<<"S", "A", "M", "N", "1">>),
        accession \in AccessionChoices(<<"S", "R", "X", "1">>),
        usedDataset \in UsedDatasetChoices,
        library \in LibraryChoices,
        second \in {EmptyDict, "usedDataset" :> Ref(<<"s", "-", "2">>)},
        generatedBy \in GeneratedByChoices}

InitRocrate == InitWith(RocrateInputs)

\* GenomicData.from_rocrate(metadata_path), data being the file's @graph
FromRocrate ==
    /\ pc = "start"
    /\ LET result == from_rocrate(data)
       IN  IF IsRaised(result)
           THEN /\ pc' = "raised"
                /\ model' = None
                /\ call' = [function |-> "from_rocrate",
                            outcome |-> Raised(result.raised)]
           ELSE /\ pc' = "loaded"
                /\ model' = result
                /\ call' = call
    /\ UNCHANGED <<data, pep_dir, reloaded, pep_rows, crate, rc>>

NextRocrate == FromRocrate

SpecRocrate == InitRocrate /\ [][NextRocrate]_vars

\* the accessions of the Sample entities a Computation's usedDataset
\* references resolve to, in reference order
ResolvedSamples(computation, graph) ==
    LET id_to_accession == sample_id_to_accession(Filed(graph, "samples_list"))
        ids == IF "usedDataset" \in DOMAIN computation
               THEN RefIds(computation["usedDataset"]) ELSE <<>>
        Resolves(entity_id) == entity_id \in DOMAIN id_to_accession
        resolved == SelectSeq(ids, Resolves)
    IN  [i \in DOMAIN resolved |-> id_to_accession[resolved[i]]]

\* (accession, sample_ref) of the records the fan-out is to yield: for every
\* Computation in graph order, one per resolved Sample
FanOut(graph) ==
    LET computations_list == Filed(graph, "computations_list")
    IN  Concat([c \in DOMAIN computations_list |->
                   LET resolved == ResolvedSamples(computations_list[c], graph)
                   IN  [i \in DOMAIN resolved |->
                           <<RocrateExperimentAccession(computations_list[c]),
                             resolved[i]>>]])

\* C17: from_rocrate on a crate with a root yields, for every Computation
\* whose usedDataset references resolve to k Sample entities, exactly k
\* Experiment records with the Computation's accession, one per resolved
\* sample accession in reference order (none for k = 0, unresolvable
\* references skipped).
C17_FanOutOnePerResolvedSample ==
    (pc # "start" /\ Filed(data, "root_dataset") # <<>>) =>
        /\ pc = "loaded"
        /\ [i \in DOMAIN model.experiments |->
               <<model.experiments[i].accession, model.experiments[i].sample_ref>>]
           = FanOut(data)

\* the Computations of the graph with at least one resolved Sample: those
\* for which an Experiment record is to be produced
Producing(graph) ==
    LET computations_list == Filed(graph, "computations_list")
    IN  {c \in DOMAIN computations_list :
            ResolvedSamples(computations_list[c], graph) # <<>>}

\* experiment_ref of the Outputs from_rocrate is to yield: for every Dataset
\* one of whose generatedBy references names a producing Computation, the
\* accession of the first such Computation
RECURSIVE FirstProducing(_, _)
FirstProducing(comp_ids, graph) ==
    LET computations_list == Filed(graph, "computations_list")
        named == {c \in Producing(graph) :
                     Get(computations_list[c], "@id", EmptyStr) = Head(comp_ids)}
    IN  IF comp_ids = <<>> THEN <<>>
        ELSE IF named # {}
             THEN <<RocrateExperimentAccession(
                       computations_list[CHOOSE c \in named : \A o \in named : o <= c])>>
        ELSE FirstProducing(Tail(comp_ids), graph)

ExpectedOutputs(graph) ==
    LET datasets_list == Filed(graph, "datasets_list")
    IN  Concat([d \in DOMAIN datasets_list |->
                   IF "generatedBy" \in DOMAIN datasets_list[d]
                   THEN FirstProducing(RefIds(datasets_list[d]["generatedBy"]), graph)
                   ELSE <<>>])

\* C18: from_rocrate on a crate with a root yields an Output for a Dataset
\* entity if and only if one of its generatedBy references names a
\* Computation for which an Experiment record was produced, with that
\* Experiment's accession as experiment_ref (first resolvable reference
\* wins); every other Dataset is dropped without error.
C18_OutputIffGeneratedByProducingComputation ==
    (pc # "start" /\ Filed(data, "root_dataset") # <<>>) =>
        /\ pc = "loaded"
        /\ [i \in DOMAIN model.outputs |-> model.outputs[i].experiment_ref]
           = ExpectedOutputs(data)

\* C19: when the cell-line lookup raises for a Sample, to_rocrate goes on:
\* the Sample's node is emitted without cellLineReference, with all of the
\* Sample's attributes (as attributes and as properties), every later step
\* can still be taken, and the finished crate holds a node for every
\* Sample, every Experiment accession and every Output.
C19_LookupFailureIsNotFatal ==
    (pc \in {"to_rocrate", "crated"} /\ \E i \in DOMAIN rc.lookups : rc.lookups[i] = "raises") =>
        /\ \A i \in DOMAIN rc.lookups :
              rc.lookups[i] = "raises" =>
                 LET sample == model.samples[i]
                     node == crate[i + 2]
                 IN  /\ node.type = "Sample"
                     /\ node.accession = sample.accession
                     /\ "cellLineReference" \notin DOMAIN node
                     /\ node.attributes = sample.attributes
                     /\ \A key \in DOMAIN sample.attributes :
                           <<key, sample.attributes[key]>>
                              \in BagToSet(node.additionalProperty)
        /\ pc = "to_rocrate" => ENABLED (RcSample \/ RcExperiment \/ RcOutput \/ RcFinish)
        /\ pc = "crated" =>
              /\ Cardinality(SampleNodeIndices) = Len(model.samples)
              /\ Cardinality(ExperimentNodeIndices)
                    = Cardinality({model.experiments[j].accession :
                                      j \in DOMAIN model.experiments})
              /\ Cardinality(DatasetNodeIndices) = Len(model.outputs)

C19_Witness ==
    /\ pc = "crated"
    /\ \E i \in DOMAIN rc.lookups :
          /\ rc.lookups[i] = "raises"
          /\ i < Len(model.samples)
          /\ "foo" \in DOMAIN crate[i + 2].attributes
          /\ "cellLineReference" \notin DOMAIN crate[i + 2]
    /\ ExperimentNodeIndices # {}
    /\ DatasetNodeIndices # {}

(***************************************************************************)
(* from_json on inputs whose experiments name different studies for the    *)
(* same sample: two studies with records, one without.                     *)
(***************************************************************************)
MaxExperiments == 3

StudyRecord(accession) ==
    [accession |-> accession,
     title |-> <<"t", "i", "t", "l", "e", " ", "o", "f", " ">> \o accession,
     abstract |-> <<"a", "b", "s", "t", "r", "a", "c", "t", " ", "o", "f", " ">> \o accession,
     description |-> <<"a", "b", "o", "u", "t", " ">> \o accession,
     center_name |-> <<"c", "e", "n", "t", "e", "r", " ", "o", "f", " ">> \o accession]

StudyRefs == {<<"S", "T", "1">>, <<"S", "T", "2">>, <<"S", "T", "3">>}

StudyInputs ==
    UNION {
        {[bioproject |-> RawProject([accession |-> <<"P", "1">>]),
          biosamples |-> ss,
          studies |-> <<StudyRecord(<<"S", "T", "1">>), StudyRecord(<<"S", "T", "2">>)>>,
          experiments |-> es,
          runs |-> <<>>] :
            ss \in [1..ns -> {RawSample(<<"S", "1">>, EmptyDict), RawSample(<<"S", "2">>, EmptyDict)}],
            es \in [1..ne ->
                      {[RawExperiment(<<"E", "1">>, sample_ref, <<"I", "L">>, <<"H", "i">>)
                           EXCEPT !.study_ref = study_ref] :
                          sample_ref \in {<<"S", "1">>, <<"S", "2">>}, study_ref \in StudyRefs}]} :
        ns \in 1..2, ne \in 0..MaxExperiments}

InitStudy == InitWith(StudyInputs)

NextStudy == FromJson

SpecStudy == InitStudy /\ [][NextStudy]_vars

\* the source experiments that reference the sample accession, by position
ReferencingExperiments(accession) ==
    {j \in DOMAIN data.experiments : data.experiments[j].sample_ref = accession}

\* the study fields a Sample is to carry for a study accession: those of the
\* source study with that accession, None where there is no such study
StudyFieldsOf(study_ref) ==
    LET at == {k \in DOMAIN data.studies : data.studies[k].accession = study_ref}
    IN  IF at = {} THEN [title |-> None, abstract |-> None, description |-> None,
                         center_name |-> None]
        ELSE LET study == data.studies[CHOOSE k \in at : TRUE]
             IN  [title |-> study.title, abstract |-> study.abstract,
                  description |-> study.description, center_name |-> study.center_name]

\* C20: after from_json, a Sample referenced by several source experiments
\* carries the study_ref of the last of them in source order as its
\* study_accession, with that study's title, abstract, description and
\* center name; a Sample no experiment references carries none.
C20_LastExperimentsStudyWins ==
    pc = "ingested" =>
        \A i \in DOMAIN model.samples :
            LET sample == model.samples[i]
                referencing == ReferencingExperiments(sample.accession)
            IN  IF referencing = {} THEN sample.study_accession = None
                ELSE LET last == CHOOSE j \in referencing : \A o \in referencing : o <= j
                         study_ref == data.experiments[last].study_ref
                         study == StudyFieldsOf(study_ref)
                     IN  /\ sample.study_accession = study_ref
                         /\ sample.study_title = study.title
                         /\ sample.study_abstract = study.abstract
                         /\ sample.study_description = study.description
                         /\ sample.study_center_name = study.center_name

C20_Witness ==
    /\ pc = "ingested"
    /\ \E i \in DOMAIN model.samples :
          \E j, k \in ReferencingExperiments(model.samples[i].accession) :
             /\ j < k
             /\ k = Len(data.experiments)
             /\ data.experiments[j].study_ref = <<"S", "T", "1">>
             /\ data.experiments[k].study_ref = <<"S", "T", "2">>
             /\ model.samples[i].study_accession = <<"S", "T", "2">>
             /\ model.samples[i].study_title = <<"t", "i", "t", "l", "e", " ", "o", "f", " ", "S", "T", "2">>

\* the rows of the samples table to_pep wrote, as csv reads them back
SamplesTable == ReadCsv(pep_dir, project_config(model).sample_table)

\* C21: in the samples table to_pep writes, for every Sample and every
\* attribute key k: if k names a column the row already sets, the cell holds
\* the column's value, not the attribute's; otherwise the cell of column k
\* holds the attribute's value.
C21_AttributesNeverOverwriteNamedColumns ==
    pc \in {"exported", "reloaded"} =>
        \A i \in DOMAIN model.samples :
            LET sample == model.samples[i]
                named == SampleRowNamed(model, sample)
            IN  \A k \in DOMAIN sample.attributes :
                    /\ k \in DOMAIN SamplesTable[i]
                    /\ SamplesTable[i][k] = IF k \in DOMAIN named THEN named[k]
                                            ELSE sample.attributes[k]

C21_Witness ==
    /\ pc = "exported"
    /\ \E i \in DOMAIN model.samples :
          LET attributes == model.samples[i].attributes
          IN  /\ {"sample_accession", "tissue", "foo"} \subseteq DOMAIN attributes
              /\ SamplesTable[i]["sample_accession"] = model.samples[i].accession
              /\ SamplesTable[i]["sample_accession"] # attributes["sample_accession"]
              /\ SamplesTable[i]["tissue"] # attributes["tissue"]
              /\ SamplesTable[i]["foo"] = attributes["foo"]
    /\ \E i \in DOMAIN model.samples :
          /\ "foo" \in DOMAIN model.samples[i].attributes
          /\ Truthy(SamplesTable[i]["foo"])

RECURSIVE FirstKeywordIn(_, _)
FirstKeywordIn(items, words) ==
    IF items = <<>> THEN EmptyStr
    ELSE IF Head(items).value \in words THEN Head(items).value
    ELSE FirstKeywordIn(Tail(items), words)

\* the value the cascade is to give one library field of a Computation: the
\* explicit field when present and non-empty, else the first keyword of the
\* field's vocabulary
Cascaded(computation, field, words) ==
    IF Truthy(Get(computation, field, EmptyStr)) THEN computation[field]
    ELSE FirstKeywordIn(Get(computation, "keywords", PyList(<<>>)).items, words)

CascadedLibrary(computation) ==
    [library_strategy |-> Cascaded(computation, "library_strategy", StrategyWords),
     library_source |-> Cascaded(computation, "library_source", SourceWords),
     library_selection |-> Cascaded(computation, "library_selection", SelectionWords),
     library_layout |-> Cascaded(computation, "library_layout", LayoutWords)]

\* the library fields of the Experiment records a graph is to yield, one per
\* Computation and resolved Sample
CascadedFanOut(graph) ==
    LET computations_list == Filed(graph, "computations_list")
    IN  Concat([c \in DOMAIN computations_list |->
                   [i \in DOMAIN ResolvedSamples(computations_list[c], graph) |->
                       CascadedLibrary(computations_list[c])]])

\* C23: from_rocrate on a crate with a root gives every Experiment record,
\* independently for library_strategy, library_source, library_selection
\* and library_layout, the Computation's explicit field when it is present
\* and non-empty, and otherwise the first keyword of the Computation that
\* belongs to the field's vocabulary.
C23_KeywordCascadePerField ==
    (pc # "start" /\ Filed(data, "root_dataset") # <<>>) =>
        /\ pc = "loaded"
        /\ [i \in DOMAIN model.experiments |->
               [library_strategy |-> model.experiments[i].library_strategy,
                library_source |-> model.experiments[i].library_source,
                library_selection |-> model.experiments[i].library_selection,
                library_layout |-> model.experiments[i].library_layout]]
           = CascadedFanOut(data)

(***************************************************************************)
(* pull-many-bioproject.py: the loop over the accessions.  data is the     *)
(* list `accessions`; rc holds the loop index, the accessions attempted,   *)
(* what each attempt did, the lines printed and the directories made.      *)
(***************************************************************************)
MaxAccessions == 3

Accessions == {<<"P", "R", "J", "D", "B", "2", "8", "8", "4">>, <<"P", "R", "J", "N", "A", "1", "2", "3", "5", "4", "1", "6">>, <<"P", "R", "J", "N", "A", "7">>}

\* what the body of the try can do: from_api raises, from_api returns and
\* to_rocrate raises, or both return
AttemptOutcomes == {"from_api raises", "to_rocrate raises", "completed"}

\* Attempt without the except clause: an exception leaves the loop
AttemptUncaught(accession, outcome) ==
    IF outcome = "completed"
    THEN [printed |-> <<"Completed", accession>>, goes_on |-> TRUE]
    ELSE [printed |-> <<"Traceback", accession>>, goes_on |-> FALSE]

\* the try/except of one iteration: the line it prints and whether the loop
\* goes on to the next accession
Attempt(accession, outcome) ==
    IF outcome = "completed"
    THEN [printed |-> <<"Completed", accession>>, goes_on |-> TRUE]
    ELSE [printed |-> <<"Error processing", accession>>, goes_on |-> TRUE]

InitBatch ==
    /\ data \in UNION {[1..n -> Accessions] : n \in 0..MaxAccessions}
    /\ pc = "batch"
    /\ rc = [step |-> "batch", i |-> 1, attempted |-> <<>>, outcomes |-> <<>>,
             printed |-> <<>>, dirs |-> {}]
    /\ model = None
    /\ pep_dir = EmptyDict
    /\ reloaded = None
    /\ pep_rows = <<>>
    /\ crate = <<>>
    /\ call = NoCall

\* for accession in accessions: one iteration
ProcessAccession ==
    /\ pc = "batch"
    /\ rc.i <= Len(data)
    /\ \E outcome \in AttemptOutcomes :
          LET accession == data[rc.i]
              attempt == Attempt(accession, outcome)
          IN  /\ rc' = [rc EXCEPT
                    !.i = @ + 1,
                    !.attempted = Append(@, accession),
                    !.outcomes = Append(@, outcome),
                    !.printed = Append(@, attempt.printed),
                    !.dirs = @ \cup {accession}]
              /\ pc' = IF attempt.goes_on THEN "batch" ELSE "aborted"
    /\ UNCHANGED <<data, model, pep_dir, reloaded, pep_rows, crate, call>>

\* the list is exhausted: the script ends
BatchEnd ==
    /\ pc = "batch"
    /\ rc.i > Len(data)
    /\ pc' = "finished"
    /\ UNCHANGED <<data, model, pep_dir, reloaded, pep_rows, crate, rc, call>>

NextBatch == ProcessAccession \/ BatchEnd

SpecBatch == InitBatch /\ [][NextBatch]_vars

\* C24: the batch script attempts the accessions of its list once each, in
\* list order; an attempt in which from_api or to_rocrate raises prints an
\* error line for its accession and the loop goes on: the script never
\* stops early, the next accession can always be attempted, and at the end
\* every accession has been attempted.
C24_BatchIsolatesFailures ==
    /\ pc \in {"batch", "finished"}
    /\ rc.attempted = SubSeq(data, 1, rc.i - 1)
    /\ Len(rc.printed) = Len(rc.attempted)
    /\ \A k \in DOMAIN rc.attempted :
          rc.printed[k] = <<IF rc.outcomes[k] = "completed" THEN "Completed"
                            ELSE "Error processing", data[k]>>
    /\ (pc = "batch" /\ rc.i <= Len(data)) => ENABLED ProcessAccession
    /\ pc = "finished" => rc.attempted = data

C24_Witness ==
    /\ pc = "finished"
    /\ Len(data) = MaxAccessions
    /\ rc.outcomes = <<"from_api raises", "to_rocrate raises", "completed">>
    /\ rc.attempted = data

\* C25: the crate to_rocrate finishes holds as many Experiment nodes as the
\* model has Experiment entries, also when several entries share one
\* accession.
C25_EveryExperimentIsEmitted ==
    pc = "crated" => Cardinality(ExperimentNodeIndices) = Len(model.experiments)

\* the @id values of the nodes of the crate graph
CrateIds == {crate[k].id : k \in DOMAIN crate}

\* the non-empty ids a node refers to through usedSample, usedInstrument,
\* generated, generatedBy and cellLineReference
References(node) ==
    LET Ids(field) == IF field \in DOMAIN node
                      THEN {node[field][i] : i \in DOMAIN node[field]} ELSE {}
        experiment == IF node.type = "Experiment"
                      THEN Ids("usedSample") \cup Ids("usedInstrument")
                           \cup {node.generated[i].id : i \in DOMAIN node.generated}
                      ELSE {}
        dataset == IF node.type = "Dataset" THEN Ids("generatedBy") ELSE {}
        sample == IF node.type = "Sample" /\ "cellLineReference" \in DOMAIN node
                  THEN {node.cellLineReference.id} ELSE {}
    IN  {ref \in experiment \cup dataset \cup sample : Truthy(ref)}

\* C26: when to_rocrate returns, every non-empty id held in an Experiment
\* node's usedSample, usedInstrument or generated, in a Dataset node's
\* generatedBy or in a Sample node's cellLineReference is the @id of a node
\* of the crate graph.
C26_CrateIsReferentiallyClosed ==
    pc = "crated" => \A k \in DOMAIN crate : References(crate[k]) \subseteq CrateIds

\* C27: any two Experiments whose (platform_type, instrument_model) pairs
\* differ are linked by to_rocrate to different Instrument nodes, each
\* carrying its Experiment's pair.
C27_DifferentInstrumentsStayApart ==
    pc = "crated" =>
        \A k1, k2 \in ExperimentNodeIndices :
            InstrumentPair(crate[k1].src) # InstrumentPair(crate[k2].src)
            => /\ crate[k1].usedInstrument # crate[k2].usedInstrument
               /\ \A k \in {k1, k2} :
                     \E n \in InstrumentNodesFor(InstrumentPair(crate[k].src)) :
                        crate[k].usedInstrument = <<crate[n].id>>

\* C28: Samples with distinct accessions get distinct sample_name cells in
\* the samples table to_pep writes, and from_pep resolves the sample_name of
\* every subsamples row to the accession of the Sample the row was exported
\* from.
C28_SampleNamesAreInjective ==
    /\ pc \in {"exported", "reloaded"} =>
          \A i, j \in DOMAIN model.samples :
              model.samples[i].accession # model.samples[j].accession
              => SamplesTable[i]["sample_name"] # SamplesTable[j]["sample_name"]
    /\ pc = "reloaded" =>
          \A t \in JoinTriples :
              PepResolveSample(reloaded.samples, pep_rows[JoinRank(t)]["sample_name"])
                 = model.samples[t[1]].accession

(***************************************************************************)
(* Several exports into one PEP directory: data is the list of raw inputs  *)
(* of the instances, all with the project accession P1; each is ingested   *)
(* and exported with to_pep into the same directory, then from_pep reads   *)
(* the directory.                                                          *)
(***************************************************************************)
MaxExports == 2

ExportedInputs ==
    {[bioproject |-> RawProject([accession |-> <<"P", "1">>, title |-> <<"P", "T">>]),
      biosamples |-> ss, studies |-> <<RawStudy>>, experiments |-> es, runs |-> rs] :
        ss \in {<<>>, <<RawSample(<<"S", "1">>, EmptyDict)>>,
                <<RawSample(<<"S", "2">>, EmptyDict), RawSample(<<"S", "1">>, EmptyDict)>>},
        es \in {<<>>, <<RawExperiment(<<"E", "1">>, <<"S", "1">>, <<"I", "L">>, <<"H", "i">>)>>,
                <<RawExperiment(<<"E", "2">>, <<"S", "2">>, <<"I", "L">>, <<"H", "i">>)>>,
                <<RawExperiment(<<"E", "2">>, <<"S", "2">>, <<"I", "L">>, <<"H", "i">>),
                  RawExperiment(<<"E", "1">>, <<"S", "1">>, <<"I", "L">>, <<"H", "i">>)>>},
        rs \in {<<>>, <<RawRun(1, <<"E", "1">>, 1)>>, <<RawRun(2, <<"E", "2">>, 1)>>,
                <<RawRun(1, <<"E", "1">>, 1), RawRun(2, <<"E", "2">>, 1)>>}}

InitReexport ==
    /\ data \in UNION {[1..n -> ExportedInputs] : n \in 1..MaxExports}
    /\ pc = "exporting"
    /\ rc = [step |-> "exporting", i |-> 1]
    /\ model = None
    /\ pep_dir = EmptyDict
    /\ reloaded = None
    /\ pep_rows = <<>>
    /\ crate = <<>>
    /\ call = NoCall

\* GenomicData.from_json(data[i]).to_pep(output_dir), for the next instance
ExportInto ==
    /\ pc = "exporting"
    /\ LET g == from_json(data[rc.i])
       IN  /\ model' = g
           /\ pep_dir' = to_pep(g, pep_dir)
           /\ pep_rows' = subsamples_data(g)
    /\ rc' = [rc EXCEPT !.i = @ + 1]
    /\ pc' = IF rc.i = Len(data) THEN "exported" ELSE "exporting"
    /\ UNCHANGED <<data, reloaded, crate, call>>

NextReexport == ExportInto \/ FromPep

SpecReexport == InitReexport /\ [][NextReexport]_vars

\* C29: after the exports into one directory, from_pep on the directory
\* returns only Samples, Experiments and Outputs of the instance exported
\* last (model), also when that instance wrote no CSV.
C29_DirectoryReflectsLastExport ==
    pc = "reloaded" =>
        /\ \A i \in DOMAIN reloaded.samples :
              \E j \in DOMAIN model.samples :
                 model.samples[j].accession = reloaded.samples[i].accession
        /\ \A i \in DOMAIN reloaded.experiments :
              \E j \in DOMAIN model.experiments :
                 model.experiments[j].accession = reloaded.experiments[i].accession
        /\ \A i \in DOMAIN reloaded.outputs :
              \E j \in DOMAIN model.outputs :
                 model.outputs[j].accession = reloaded.outputs[i].accession

(***************************************************************************)
(* The two readers together: a PEP directory after one or two exports read *)
(* by from_pep, or an RO-Crate graph read by from_rocrate.                 *)
(***************************************************************************)
InitReadBack == InitReexport \/ InitRocrate

NextReadBack == ExportInto \/ FromPep \/ FromRocrate

SpecReadBack == InitReadBack /\ [][NextReadBack]_vars

\* every non-empty sample_ref of an Experiment of g is the accession of a
\* Sample of g, and every experiment_ref of an Output of g is the accession
\* of an Experiment of g
ReferentiallyClosed(g) ==
    /\ \A i \in DOMAIN g.experiments :
          Truthy(g.experiments[i].sample_ref) =>
             \E j \in DOMAIN g.samples :
                g.samples[j].accession = g.experiments[i].sample_ref
    /\ \A i \in DOMAIN g.outputs :
          \E j \in DOMAIN g.experiments :
             g.experiments[j].accession = g.outputs[i].experiment_ref

\* C30: the GenomicData from_pep returns for a PEP directory and the
\* GenomicData from_rocrate returns for a graph are referentially closed.
C30_ReadersReturnClosedModels ==
    /\ pc = "reloaded" => ReferentiallyClosed(reloaded)
    /\ pc = "loaded" => ReferentiallyClosed(model)

C30_Witness ==
    /\ pc = "reloaded"
    /\ Len(data) = MaxExports
    /\ Len(reloaded.samples) = 1
    /\ \E i \in DOMAIN reloaded.experiments :
          reloaded.experiments[i].sample_ref = reloaded.samples[1].accession
    /\ \E i \in DOMAIN reloaded.experiments : ~Truthy(reloaded.experiments[i].sample_ref)
    /\ Len(reloaded.outputs) >= 1


=============================================================================
